---- MODULE Spec2Model ----
(***************************************************************************)
(* The query safety pipeline of rick_ai (backend/utils/sqlValidator.js,    *)
(* backend/config/rickConfig.js).  A string is a sequence of characters,   *)
(* each character a one-character TLA+ string, so that substring tests,    *)
(* case folding, splitting and the two regular expressions of the source   *)
(* are computed character by character as JavaScript computes them.        *)
(* The memory store (backend/services/memoryService.js) and the chat       *)
(* controller (backend/controllers/rickController.js) follow, each with a  *)
(* specification of its own: MemorySpec and ChatSpec.                      *)
(***************************************************************************)
EXTENDS Integers, Sequences, FiniteSets, TLC

VARIABLES sql, teacherId, op, cleanSQL, validation, injected, injectedAgain,
          result,
          store, nextId, now, memOp, memResult, response,
          message, pc, calls, sqlResult, queryResult, formatted, context,
          req, ui, tasks

\* The validator's arguments and return values.
sqlVars ==
    <<sql, teacherId, op, cleanSQL, validation, injected, injectedAgain, result>>

\* The rick_memory table, the database's id counter and clock, the memory
\* service call made last with its return value, and the HTTP response.
memVars == <<store, nextId, now, memOp, memResult, response>>

\* One inbound chat message and the position of handleChat in it.
chatVars ==
    <<message, pc, calls, sqlResult, queryResult, formatted, context>>

\* The request as the middleware sees it, the state of the RickChat and
\* MemoryList components, and the handlers of theirs that wait at an await.
webVars == <<req, ui, tasks>>

vars == <<sqlVars, memVars, chatVars, webVars>>

----------------------------------------------------------------------------
(* Characters and the JavaScript string primitives the validator uses.     *)

LowerLetters ==
    <<"a", "b", "c", "d", "e", "f", "g", "h", "i", "j", "k", "l", "m",
      "n", "o", "p", "q", "r", "s", "t", "u", "v", "w", "x", "y", "z">>

UpperLetters ==
    <<"A", "B", "C", "D", "E", "F", "G", "H", "I", "J", "K", "L", "M",
      "N", "O", "P", "Q", "R", "S", "T", "U", "V", "W", "X", "Y", "Z">>

Digits ==
    <<"0", "1", "2", "3", "4", "5", "6", "7", "8", "9">>

LowerSet == {LowerLetters[i] : i \in DOMAIN LowerLetters}
UpperSet == {UpperLetters[i] : i \in DOMAIN UpperLetters}
DigitSet == {Digits[i] : i \in DOMAIN Digits}

\* null: a value that is no string (its one element is not a character).
Null == <<"null">>

UpperOf ==
    [c \in LowerSet |->
        UpperLetters[CHOOSE i \in DOMAIN LowerLetters : LowerLetters[i] = c]]

LowerOf ==
    [c \in UpperSet |->
        LowerLetters[CHOOSE i \in DOMAIN UpperLetters : UpperLetters[i] = c]]

\* String.prototype.toUpperCase on the ASCII range.
toUpperCase(s) ==
    [i \in 1..Len(s) |-> IF s[i] \in LowerSet THEN UpperOf[s[i]] ELSE s[i]]

\* String.prototype.toLowerCase on the ASCII range.
toLowerCase(s) ==
    [i \in 1..Len(s) |-> IF s[i] \in UpperSet THEN LowerOf[s[i]] ELSE s[i]]

\* The regular-expression class \s (also what trim() strips).
SpaceChars == {" ", "\t", "\n"}
isSpace(c) == c \in SpaceChars

\* The regular-expression class \w.
WordChars == LowerSet \cup UpperSet \cup DigitSet \cup {"_"}
isWord(c) == c \in WordChars

Min(S) == CHOOSE x \in S : \A y \in S : x <= y
Max(S) == CHOOSE x \in S : \A y \in S : x >= y

\* String.prototype.includes.
includes(s, p) ==
    \E i \in 1..(Len(s) - Len(p) + 1) : SubSeq(s, i, i + Len(p) - 1) = p

\* String.prototype.startsWith.
startsWith(s, p) ==
    Len(p) <= Len(s) /\ SubSeq(s, 1, Len(p)) = p

\* String.prototype.trim.
trim(s) ==
    LET keep == {i \in 1..Len(s) : ~isSpace(s[i])}
    IN  IF keep = {} THEN <<>> ELSE SubSeq(s, Min(keep), Max(keep))

\* String.prototype.split with a one-character separator.
RECURSIVE split(_, _)
split(s, sep) ==
    LET at == {i \in 1..Len(s) : s[i] = sep}
    IN  IF at = {} THEN <<s>>
        ELSE <<SubSeq(s, 1, Min(at) - 1)>>
                 \o split(SubSeq(s, Min(at) + 1, Len(s)), sep)

\* The text of a number inside a template literal: ${teacherId}.
RECURSIVE numberToString(_)
numberToString(n) ==
    IF n < 10 THEN <<Digits[n + 1]>>
    ELSE numberToString(n \div 10) \o <<Digits[(n % 10) + 1]>>

----------------------------------------------------------------------------
(* String literals of the source.                                          *)

kwSELECT ==
    <<"S", "E", "L", "E", "C", "T">>

kwFROM ==
    <<"F", "R", "O", "M">>

kwWHERE ==
    <<"W", "H", "E", "R", "E">>

strTeacherId ==
    <<"t", "e", "a", "c", "h", "e", "r", "_", "i", "d">>

strWhere ==
    <<"w", "h", "e", "r", "e">>

strFrom ==
    <<"f", "r", "o", "m">>

DROP ==
    <<"D", "R", "O", "P">>

DELETE ==
    <<"D", "E", "L", "E", "T", "E">>

UPDATE ==
    <<"U", "P", "D", "A", "T", "E">>

INSERT ==
    <<"I", "N", "S", "E", "R", "T">>

ALTER ==
    <<"A", "L", "T", "E", "R">>

TRUNCATE ==
    <<"T", "R", "U", "N", "C", "A", "T", "E">>

GRANT ==
    <<"G", "R", "A", "N", "T">>

REVOKE ==
    <<"R", "E", "V", "O", "K", "E">>

CREATE ==
    <<"C", "R", "E", "A", "T", "E">>

REPLACE ==
    <<"R", "E", "P", "L", "A", "C", "E">>

EXEC ==
    <<"E", "X", "E", "C">>

EXECUTE ==
    <<"E", "X", "E", "C", "U", "T", "E">>

students ==
    <<"s", "t", "u", "d", "e", "n", "t", "s">>

grades ==
    <<"g", "r", "a", "d", "e", "s">>

assignments ==
    <<"a", "s", "s", "i", "g", "n", "m", "e", "n", "t", "s">>

attendance ==
    <<"a", "t", "t", "e", "n", "d", "a", "n", "c", "e">>

courses ==
    <<"c", "o", "u", "r", "s", "e", "s">>

classes ==
    <<"c", "l", "a", "s", "s", "e", "s">>

errOnlySelect ==
    <<"O", "n", "l", "y", " ", "S", "E", "L", "E", "C", "T", " ", "q", "u",
      "e", "r", "i", "e", "s", " ", "a", "r", "e", " ", "a", "l", "l", "o",
      "w", "e", "d">>

errBlockedPrefix ==
    <<"B", "l", "o", "c", "k", "e", "d", " ", "k", "e", "y", "w", "o", "r",
      "d", " ", "d", "e", "t", "e", "c", "t", "e", "d", ":", " ">>

errTablePrefix ==
    <<"T", "a", "b", "l", "e", " ", "'">>

errTableSuffix ==
    <<"'", " ", "i", "s", " ", "n", "o", "t", " ", "a", "l", "l", "o", "w",
      "e", "d">>

errTeacherFilter ==
    <<"Q", "u", "e", "r", "y", " ", "m", "u", "s", "t", " ", "f", "i", "l",
      "t", "e", "r", " ", "b", "y", " ", "t", "e", "a", "c", "h", "e", "r",
      "_", "i", "d">>

replWherePrefix ==
    <<"W", "H", "E", "R", "E", " ", "t", "e", "a", "c", "h", "e", "r", "_",
      "i", "d", " ", "=", " ">>

replWhereSuffix ==
    <<" ", "A", "N", "D">>

replFromPrefix ==
    <<"F", "R", "O", "M", " ">>

\* Faulty variant of replFromMiddle: no spaces around '='.
replFromMiddleNoSpaces ==
    <<" ", "W", "H", "E", "R", "E", " ", "t", "e", "a", "c", "h", "e", "r",
      "_", "i", "d", "=">>

replFromMiddle ==
    <<" ", "W", "H", "E", "R", "E", " ", "t", "e", "a", "c", "h", "e", "r",
      "_", "i", "d", " ", "=", " ">>

\* config.allowedTables
allowedTables ==
    <<students, grades, assignments, attendance, courses, classes>>

\* config.blockedKeywords, in the order of the configuration.
blockedKeywords ==
    <<DROP, DELETE, UPDATE, INSERT, ALTER, TRUNCATE, GRANT, REVOKE, CREATE,
      REPLACE, EXEC, EXECUTE>>

Range(f) == {f[i] : i \in DOMAIN f}

----------------------------------------------------------------------------
(* The two regular expressions.                                            *)

\* The last index of the run of characters of class C that starts at
\* start (start - 1 when the run is empty): a greedy + or * of a class.
RunEnd(s, start, C) ==
    Max({j \in (start - 1)..Len(s) : \A k \in start..j : s[k] \in C})

NoMatch == [found |-> FALSE, start |-> 0, end |-> 0, group |-> <<>>]

\* One attempt of /from\s+(\w+)/i at index i: the keyword in any case, a
\* non-empty run of white space, a non-empty run of word characters.
matchFromAt(s, i) ==
    IF i + 3 > Len(s) \/ toUpperCase(SubSeq(s, i, i + 3)) # kwFROM
    THEN NoMatch
    ELSE LET wsEnd == RunEnd(s, i + 4, SpaceChars)
             wEnd  == RunEnd(s, wsEnd + 1, WordChars)
         IN  IF wsEnd < i + 4 \/ wEnd < wsEnd + 1
             THEN NoMatch
             ELSE [found |-> TRUE, start |-> i, end |-> wEnd,
                   group |-> SubSeq(s, wsEnd + 1, wEnd)]

\* RegExp exec from index i on: the first index at or after i where the
\* expression matches, with the match's end and its captured group.
RECURSIVE searchFrom(_, _)
searchFrom(s, i) ==
    IF i > Len(s) THEN NoMatch
    ELSE LET m == matchFromAt(s, i)
         IN  IF m.found THEN m ELSE searchFrom(s, i + 1)

\* [...sql.matchAll(/FROM\s+(\w+)/gi)].map(match => match[1]): the captured
\* names of the successive non-overlapping matches, scanning from index i.
RECURSIVE matchAllFrom(_, _)
matchAllFrom(s, i) ==
    LET m == searchFrom(s, i)
    IN  IF m.found THEN <<m.group>> \o matchAllFrom(s, m.end + 1) ELSE <<>>

\* The index where /where/i first matches, 0 when it does not.
firstWhere(s) ==
    LET at == {i \in 1..(Len(s) - 4) :
                  toUpperCase(SubSeq(s, i, i + 4)) = kwWHERE}
    IN  IF at = {} THEN 0 ELSE Min(at)

----------------------------------------------------------------------------
(* backend/utils/sqlValidator.js                                           *)

\* Faulty variant of blockedKeywordLoop: a keyword counts only as the
\* leading verb of the statement.
RECURSIVE blockedKeywordLoopLeadingOnly(_, _)
blockedKeywordLoopLeadingOnly(upperSQL, i) ==
    IF i > Len(blockedKeywords) THEN <<>>
    ELSE IF startsWith(trim(upperSQL), blockedKeywords[i]) THEN blockedKeywords[i]
    ELSE blockedKeywordLoopLeadingOnly(upperSQL, i + 1)

\* Faulty variant of blockedKeywordLoop: the keywords are tried from the
\* last of the configuration to the first.
RECURSIVE blockedKeywordLoopReversed(_, _)
blockedKeywordLoopReversed(upperSQL, i) ==
    IF i > Len(blockedKeywords) THEN <<>>
    ELSE LET k == blockedKeywords[Len(blockedKeywords) + 1 - i]
         IN  IF includes(upperSQL, k) THEN k
             ELSE blockedKeywordLoopReversed(upperSQL, i + 1)

\* Check 2: the for loop over config.blockedKeywords from index i on; the
\* keyword of the first iteration that returns, <<>> when the loop ends.
RECURSIVE blockedKeywordLoop(_, _)
blockedKeywordLoop(upperSQL, i) ==
    IF i > Len(blockedKeywords) THEN <<>>
    ELSE IF includes(upperSQL, blockedKeywords[i]) THEN blockedKeywords[i]
    ELSE blockedKeywordLoop(upperSQL, i + 1)

\* Check 3: the for loop over the extracted tables from index i on; the
\* table of the first iteration that returns, <<>> when the loop ends.
RECURSIVE tableLoop(_, _)
tableLoop(tables, i) ==
    IF i > Len(tables) THEN <<>>
    ELSE IF tables[i] \notin Range(allowedTables) THEN tables[i]
    ELSE tableLoop(tables, i + 1)

extractTables(s) ==
    LET names == matchAllFrom(s, 1)
    IN  [i \in 1..Len(names) |-> toLowerCase(names[i])]

validateSQL(s, tid) ==
    LET upperSQL == toUpperCase(s)
        keyword  == blockedKeywordLoop(upperSQL, 1)
        table    == tableLoop(extractTables(s), 1)
    IN  IF ~startsWith(trim(upperSQL), kwSELECT)
        THEN [valid |-> FALSE, error |-> errOnlySelect]
        ELSE IF keyword # <<>>
        THEN [valid |-> FALSE, error |-> errBlockedPrefix \o keyword]
        ELSE IF table # <<>>
        THEN [valid |-> FALSE,
              error |-> errTablePrefix \o table \o errTableSuffix]
        ELSE IF ~includes(toLowerCase(s), strTeacherId)
        THEN [valid |-> FALSE, error |-> errTeacherFilter]
        ELSE [valid |-> TRUE, error |-> Null]

\* Variant of replaceWhere that leaves alone a WHERE already followed by
\* the predicate.
replaceWhereOnce(s, tid) ==
    LET w == firstWhere(s)
        p == replWherePrefix \o numberToString(tid) \o replWhereSuffix
    IN  IF w = 0 \/ (w + Len(p) - 1 <= Len(s) /\ SubSeq(s, w, w + Len(p) - 1) = p)
        THEN s
        ELSE SubSeq(s, 1, w - 1) \o p \o SubSeq(s, w + 5, Len(s))

\* sql.replace(/where/i, 'WHERE teacher_id = ${teacherId} AND')
replaceWhere(s, tid) ==
    LET w == firstWhere(s)
    IN  IF w = 0 THEN s
        ELSE SubSeq(s, 1, w - 1)
                 \o replWherePrefix \o numberToString(tid) \o replWhereSuffix
                 \o SubSeq(s, w + 5, Len(s))

\* sql.replace(/from\s+(\w+)/i, 'FROM $1 WHERE teacher_id = ${teacherId}')
replaceFrom(s, tid) ==
    LET m == searchFrom(s, 1)
    IN  IF ~m.found THEN s
        ELSE SubSeq(s, 1, m.start - 1)
                 \o replFromPrefix \o m.group
                 \o replFromMiddle \o numberToString(tid)
                 \o SubSeq(s, m.end + 1, Len(s))

injectTeacherFilter(s, tid) ==
    LET lowerSQL == toLowerCase(s)
    IN  IF includes(lowerSQL, strWhere) THEN replaceWhere(s, tid)
        ELSE IF includes(lowerSQL, strFrom) THEN replaceFrom(s, tid)
        ELSE s

sanitizeSQL(s) ==
    LET statements == SelectSeq(split(s, ";"), LAMBDA st : trim(st) # <<>>)
    IN  IF Len(statements) > 1 THEN statements[1] ELSE trim(s)

\* validateAndPrepareSQL with the two steps exchanged: the filter is injected
\* first and the injected statement is what gets validated.
validateAndPrepareSQLInjectFirst(s, tid) ==
    LET clean == sanitizeSQL(s)
        inj   == injectTeacherFilter(clean, tid)
        v     == validateSQL(inj, tid)
    IN  IF ~v.valid
        THEN [success |-> FALSE, error |-> v.error, sql |-> Null]
        ELSE [success |-> TRUE, error |-> Null, sql |-> inj]

validateAndPrepareSQL(s, tid) ==
    LET clean == sanitizeSQL(s)
        v     == validateSQL(clean, tid)
    IN  IF ~v.valid
        THEN [success |-> FALSE, error |-> v.error, sql |-> Null]
        ELSE [success |-> TRUE, error |-> Null,
              sql |-> injectTeacherFilter(clean, tid)]

----------------------------------------------------------------------------
(* Candidate statements: what the language model may hand over.            *)

hSelectTeacherId ==
    <<"S", "E", "L", "E", "C", "T", " ", "t", "e", "a", "c", "h", "e", "r",
      "_", "i", "d">>

hSelectNameLower ==
    <<" ", "s", "e", "l", "e", "c", "t", " ", "n", "a", "m", "e">>

fFromStudents ==
    <<" ", "F", "R", "O", "M", " ", "s", "t", "u", "d", "e", "n", "t", "s">>

fFromLowerRickMemory ==
    <<" ", "f", "r", "o", "m", " ", " ", "R", "i", "c", "k", "_", "M", "e",
      "m", "o", "r", "y">>

fFromParen ==
    <<" ", "F", "R", "O", "M", " ", "(", "r", "i", "c", "k", "_", "m", "e",
      "m", "o", "r", "y", ")">>

fJoinRickMemory ==
    <<" ", "J", "O", "I", "N", " ", "r", "i", "c", "k", "_", "m", "e", "m",
      "o", "r", "y">>

fWhereA ==
    <<" ", "W", "H", "E", "R", "E", " ", "a", " ", "=", " ", "1">>

fWhereAOrB ==
    <<" ", "W", "H", "E", "R", "E", " ", "a", " ", "=", " ", "1", " ", "O",
      "R", " ", "b", " ", "=", " ", "1">>

fDropTable ==
    <<";", " ", "D", "R", "O", "P", " ", "T", "A", "B", "L", "E", " ", "g",
      "r", "a", "d", "e", "s">>

fWhereLetters ==
    <<"w", "h", "e", "r", "e">>

fRop ==
    <<"R", "O", "P">>

fUpdated ==
    <<"_", "u", "p", "d", "a", "t", "e", "d">>

fSemicolon ==
    <<";">>

fSubquery ==
    <<",", " ", "(", "S", "E", "L", "E", "C", "T", " ", "1", " ", "F", "R",
      "O", "M", " ", "g", "r", "a", "d", "e", "s", " ", "W", "H", "E", "R",
      "E", " ", "a", " ", "=", " ", "1", ")">>

scenarioMulti ==
    <<"S", "E", "L", "E", "C", "T", " ", "*", " ", "F", "R", "O", "M", " ",
      "s", "t", "u", "d", "e", "n", "t", "s", ";", " ", "D", "R", "O", "P",
      " ", "T", "A", "B", "L", "E", " ", "g", "r", "a", "d", "e", "s", ";">>

scenarioNoWhere ==
    <<"S", "E", "L", "E", "C", "T", " ", "n", "a", "m", "e", " ", "F", "R",
      "O", "M", " ", "s", "t", "u", "d", "e", "n", "t", "s">>

\* How a candidate begins: nothing, or a SELECT list.
Heads ==
    {<<>>, hSelectTeacherId, hSelectNameLower}

\* What may follow, in any order and number up to MaxTail.
Fragments ==
    {fFromStudents, fFromLowerRickMemory, fFromParen, fJoinRickMemory,
     fWhereA, fWhereAOrB, fDropTable, fWhereLetters, fRop, fUpdated,
     fSemicolon, fSubquery}

MaxTail == 2

RECURSIVE Concat(_)
Concat(fs) == IF fs = <<>> THEN <<>> ELSE Head(fs) \o Concat(Tail(fs))

\* The concrete statements of the specification, and every head followed
\* by at most MaxTail fragments.
Candidates ==
    {scenarioMulti, scenarioNoWhere}
        \cup {h \o Concat(fs) : h \in Heads,
                               fs \in UNION {[1..n -> Fragments] : n \in 0..MaxTail}}

TeacherIds == {5, 42}

----------------------------------------------------------------------------
(* The state machine: one candidate statement and one caller, and the      *)
(* exported functions of the module applied to them.  op names the call    *)
(* made last; each call leaves its return value in its own variable.       *)

NoValidation == [valid |-> FALSE, error |-> Null]
NoResult == [success |-> FALSE, error |-> Null, sql |-> Null]

\* Values of the other components' variables before anything has happened.
NoMemOp ==
    [name |-> "none", teacherId |-> 0, memoryId |-> 0, text |-> Null,
     limit |-> 0, failed |-> FALSE]
NoMemResult == [success |-> FALSE, error |-> Null]
NoResponse == [status |-> 0, body |-> Null]

MemoryIdle ==
    /\ store = {}
    /\ nextId = 1
    /\ now = 0
    /\ memOp = NoMemOp
    /\ memResult = NoMemResult
    /\ response = NoResponse

ChatIdle ==
    /\ message = Null
    /\ pc = "idle"
    /\ calls = <<>>
    /\ sqlResult = NoResult
    /\ queryResult = NoResult
    /\ formatted = NoResult
    /\ context = Null

\* No request at the middleware, the components as they are mounted.
NoRequest == [route |-> "none", stage |-> "none"]

Unmounted ==
    [messages |-> <<>>, isLoading |-> FALSE, showMemories |-> FALSE,
     memories |-> <<>>, deleting |-> 0]

WebIdle ==
    /\ req = NoRequest
    /\ ui = Unmounted
    /\ tasks = {}

Init ==
    /\ MemoryIdle
    /\ ChatIdle
    /\ WebIdle
    /\ sql \in Candidates
    /\ teacherId \in TeacherIds
    /\ op = "none"
    /\ cleanSQL = Null
    /\ validation = NoValidation
    /\ injected = Null
    /\ injectedAgain = Null
    /\ result = NoResult

CallSanitizeSQL ==
    /\ op = "none"
    /\ op' = "sanitizeSQL"
    /\ cleanSQL' = sanitizeSQL(sql)
    /\ UNCHANGED <<sql, teacherId, validation, injected, injectedAgain, result>>
    /\ UNCHANGED <<memVars, chatVars, webVars>>

CallValidateSQL ==
    /\ op = "none"
    /\ op' = "validateSQL"
    /\ validation' = validateSQL(sql, teacherId)
    /\ UNCHANGED <<sql, teacherId, cleanSQL, injected, injectedAgain, result>>
    /\ UNCHANGED <<memVars, chatVars, webVars>>

CallInjectTeacherFilter ==
    /\ op = "none"
    /\ op' = "injectTeacherFilter"
    /\ injected' = injectTeacherFilter(sql, teacherId)
    /\ UNCHANGED <<sql, teacherId, cleanSQL, validation, injectedAgain, result>>
    /\ UNCHANGED <<memVars, chatVars, webVars>>

CallInjectTeacherFilterAgain ==
    /\ op = "injectTeacherFilter"
    /\ op' = "injectTeacherFilterAgain"
    /\ injectedAgain' = injectTeacherFilter(injected, teacherId)
    /\ UNCHANGED <<sql, teacherId, cleanSQL, validation, injected, result>>
    /\ UNCHANGED <<memVars, chatVars, webVars>>

CallValidateAndPrepareSQL ==
    /\ op = "none"
    /\ op' = "validateAndPrepareSQL"
    /\ result' = validateAndPrepareSQL(sql, teacherId)
    /\ UNCHANGED <<sql, teacherId, cleanSQL, validation, injected, injectedAgain>>
    /\ UNCHANGED <<memVars, chatVars, webVars>>

Next ==
    \/ CallSanitizeSQL
    \/ CallValidateSQL
    \/ CallInjectTeacherFilter
    \/ CallInjectTeacherFilterAgain
    \/ CallValidateAndPrepareSQL

Spec == Init /\ [][Next]_vars

----------------------------------------------------------------------------
(* Vocabulary of the properties.                                           *)

scenarioNoWhereSpec ==
    <<"S", "E", "L", "E", "C", "T", " ", "n", "a", "m", "e", " ", "F", "R",
      "O", "M", " ", "s", "t", "u", "d", "e", "n", "t", "s", " ", "W", "H",
      "E", "R", "E", " ", "t", "e", "a", "c", "h", "e", "r", "_", "i", "d",
      "=", "4", "2">>

scenarioNoWhereCode ==
    <<"S", "E", "L", "E", "C", "T", " ", "n", "a", "m", "e", " ", "F", "R",
      "O", "M", " ", "s", "t", "u", "d", "e", "n", "t", "s", " ", "W", "H",
      "E", "R", "E", " ", "t", "e", "a", "c", "h", "e", "r", "_", "i", "d",
      " ", "=", " ", "4", "2">>

kwJOIN ==
    <<"J", "O", "I", "N">>

kwAND ==
    <<"A", "N", "D">>

kwOR ==
    <<"O", "R">>

strPredicatePrefix ==
    <<"t", "e", "a", "c", "h", "e", "r", "_", "i", "d", " ", "=", " ">>


\* The isolation predicate for tenant tid, as the code writes it.
IsolationPredicate(tid) == strPredicatePrefix \o numberToString(tid)

\* k occurs in s at index i, in any letter case (k is upper case).
OccursAnyCaseAt(s, k, i) ==
    /\ i >= 1
    /\ i + Len(k) - 1 <= Len(s)
    /\ \A j \in 1..Len(k) :
           \/ s[i + j - 1] = k[j]
           \/ (k[j] \in UpperSet /\ s[i + j - 1] = LowerOf[k[j]])

ContainsAnyCase(s, k) == \E i \in 1..Len(s) : OccursAnyCaseAt(s, k, i)

\* The indices where a non-empty statement of s begins: a character that
\* is neither white space nor ';' with only white space between it and the
\* preceding ';' (or the beginning of s).
StatementStarts(s) ==
    {i \in 1..Len(s) :
        /\ ~isSpace(s[i])
        /\ s[i] # ";"
        /\ \A j \in 1..(i - 1) :
               (\A k \in j..(i - 1) : s[k] # ";") => isSpace(s[j])}

StatementCount(s) == Cardinality(StatementStarts(s))

\* s begins, after leading white space, with SELECT in any letter case.
BeginsWithSelect(s) ==
    \E i \in 1..Len(s) :
        /\ \A j \in 1..(i - 1) : isSpace(s[j])
        /\ OccursAnyCaseAt(s, kwSELECT, i)

----------------------------------------------------------------------------
(* C1.  A candidate with more than one non-empty statement separated by    *)
(* ';' is rejected by validateAndPrepareSQL (success = false, sql = null); *)
(* it is never cut down to its first statement and returned as a           *)
(* successful query.                                                       *)

C1_MultiStatementRejected ==
    (op = "validateAndPrepareSQL" /\ StatementCount(sql) > 1)
        => (result.success = FALSE /\ result.sql = Null)

----------------------------------------------------------------------------
(* C2.  Every statement returned with success = true by                    *)
(* validateAndPrepareSQL contains the isolation predicate                  *)
(* teacher_id = <teacherId> of the requesting tenant.                      *)

C2_SuccessHasTenantPredicate ==
    (op = "validateAndPrepareSQL" /\ result.success)
        => includes(result.sql, IsolationPredicate(teacherId))

----------------------------------------------------------------------------
(* C3.  For a validated statement that already has a WHERE clause, the     *)
(* statement returned by injectTeacherFilter(sql, tenantId), evaluated     *)
(* literally over rows of several tenants, returns no row of another       *)
(* tenant, whatever boolean operators its WHERE condition contains.        *)
(*                                                                         *)
(* Literal evaluation: SQL's reading of SELECT .. FROM t WHERE c, for a    *)
(* condition c made of comparisons x = y joined by AND and OR, where AND   *)
(* binds tighter than OR.                                                  *)

\* The words of s (maximal runs of non-space characters) from index i on.
RECURSIVE WordsFrom(_, _)
WordsFrom(s, i) ==
    IF i > Len(s) THEN <<>>
    ELSE IF isSpace(s[i]) THEN WordsFrom(s, i + 1)
    ELSE LET e == Min({j \in i..Len(s) : j = Len(s) \/ isSpace(s[j + 1])})
         IN  <<SubSeq(s, i, e)>> \o WordsFrom(s, e + 1)

Words(s) == WordsFrom(s, 1)

IsNumber(w) == w # <<>> /\ \A i \in 1..Len(w) : w[i] \in DigitSet

RECURSIVE NumberValue(_)
NumberValue(w) ==
    IF w = <<>> THEN 0
    ELSE NumberValue(SubSeq(w, 1, Len(w) - 1)) * 10
             + (CHOOSE d \in 0..9 : Digits[d + 1] = w[Len(w)])

Columns == {strTeacherId, <<"a">>, <<"b">>}

\* The rows of a table shared by the tenants.
Rows == [teacher_id : TeacherIds, a : {0, 1}, b : {0, 1}]

IsOperand(w) == w \in Columns \/ IsNumber(w)

OperandValue(w, row) ==
    IF w = strTeacherId THEN row.teacher_id
    ELSE IF w = <<"a">> THEN row.a
    ELSE IF w = <<"b">> THEN row.b
    ELSE NumberValue(w)

\* The words of the WHERE condition of s: those after its WHERE keyword.
WhereIndex(s) ==
    LET w == Words(s)
    IN  {k \in 1..Len(w) : toUpperCase(w[k]) = kwWHERE}

Condition(s) ==
    LET w == Words(s)
    IN  SubSeq(w, Min(WhereIndex(s)) + 1, Len(w))

\* s is SELECT .. FROM <table> WHERE <comparison> {AND|OR <comparison>},
\* one statement without parentheses.
IsSimpleQuery(s) ==
    LET w == Words(s)
    IN  /\ \A i \in 1..Len(s) : s[i] \notin {";", "(", ")"}
        /\ Cardinality(WhereIndex(s)) = 1
        /\ LET k == Min(WhereIndex(s))
               c == Condition(s)
           IN  /\ k >= 4
               /\ toUpperCase(w[1]) = kwSELECT
               /\ toUpperCase(w[k - 2]) = kwFROM
               /\ Len(c) % 4 = 3
               /\ \A j \in 1..Len(c) :
                      CASE j % 4 = 1 -> IsOperand(c[j])
                        [] j % 4 = 2 -> c[j] = <<"=">>
                        [] j % 4 = 3 -> IsOperand(c[j])
                        [] OTHER -> toUpperCase(c[j]) \in {kwAND, kwOR}

\* Whether the simple query s returns the row: some maximal run of
\* comparisons joined by AND holds of it.
Selects(s, row) ==
    LET c == Condition(s)
        n == (Len(c) + 1) \div 4
        holds(j) == OperandValue(c[4 * j - 3], row) = OperandValue(c[4 * j - 1], row)
        isOr(j) == toUpperCase(c[4 * j]) = kwOR
    IN  \E i \in 1..n : \E j \in i..n :
            /\ i = 1 \/ isOr(i - 1)
            /\ j = n \/ isOr(j)
            /\ \A k \in i..(j - 1) : ~isOr(k)
            /\ \A k \in i..j : holds(k)

C3_InjectedQueryReturnsOnlyOwnRows ==
    (/\ op = "injectTeacherFilter"
     /\ validateSQL(sql, teacherId).valid
     /\ IsSimpleQuery(sql)
     /\ IsSimpleQuery(injected))
        => \A row \in Rows :
               Selects(injected, row) => row.teacher_id = teacherId

\* The same for conditions without OR (what the code does achieve).
C3_HoldsWithoutOr ==
    (/\ op = "injectTeacherFilter"
     /\ validateSQL(sql, teacherId).valid
     /\ IsSimpleQuery(sql)
     /\ IsSimpleQuery(injected)
     /\ \A j \in 1..Len(Condition(sql)) : toUpperCase(Condition(sql)[j]) # kwOR)
        => \A row \in Rows :
               Selects(injected, row) => row.teacher_id = teacherId

----------------------------------------------------------------------------
(* C4.  In every statement returned by injectTeacherFilter the isolation   *)
(* predicate is conjoined at the top level of the outermost statement's    *)
(* WHERE clause: the 'where' that is rewritten is the outer statement's    *)
(* WHERE keyword, never one inside a subquery or inside an identifier.     *)

\* The nesting depth of parentheses at index i of s.
ParenDepth(s, i) ==
    Cardinality({j \in 1..(i - 1) : s[j] = "("})
        - Cardinality({j \in 1..(i - 1) : s[j] = ")"})

\* The keyword kw stands at index i of s as a word of its own.
IsKeywordAt(s, kw, i) ==
    /\ OccursAnyCaseAt(s, kw, i)
    /\ i = 1 \/ ~isWord(s[i - 1])
    /\ i + Len(kw) > Len(s) \/ ~isWord(s[i + Len(kw)])

\* The indices of the WHERE keywords of the outermost statement.
OuterWheres(s) ==
    {i \in 1..Len(s) : IsKeywordAt(s, kwWHERE, i) /\ ParenDepth(s, i) = 0}

\* The outermost WHERE clause of s begins with the isolation predicate as
\* a term of its own: WHERE teacher_id = <tid>, then AND or the end.
PredicateAtOuterWhere(s, tid) ==
    /\ OuterWheres(s) # {}
    /\ LET i == Min(OuterWheres(s))
           p == <<" ">> \o IsolationPredicate(tid)
           e == i + 5 + Len(p)
       IN  /\ e - 1 <= Len(s)
           /\ SubSeq(s, i + 5, e - 1) = p
           /\ e > Len(s) \/ ~isWord(s[e])

C4_PredicateAtOuterWhere ==
    (/\ op = "injectTeacherFilter"
     /\ validateSQL(sql, teacherId).valid
     /\ ContainsAnyCase(sql, kwWHERE))
        => PredicateAtOuterWhere(injected, teacherId)

\* The same when the first 'where' of the statement is the outer keyword.
C4_HoldsWhenFirstWhereIsOuter ==
    (/\ op = "injectTeacherFilter"
     /\ validateSQL(sql, teacherId).valid
     /\ OuterWheres(sql) # {}
     /\ OccursAnyCaseAt(sql, kwWHERE, Min(OuterWheres(sql)))
     /\ \A i \in 1..(Min(OuterWheres(sql)) - 1) :
            ~OccursAnyCaseAt(sql, kwWHERE, i))
        => PredicateAtOuterWhere(injected, teacherId)

----------------------------------------------------------------------------
(* C5.  validateSQL rejects every statement that names, after a FROM or a  *)
(* JOIN keyword (any case), a table outside config.allowedTables; so no    *)
(* statement accepted by validateAndPrepareSQL references such a table.    *)

\* The names that follow the keyword kw and white space in s, lower-cased.
NamesAfter(s, kw) ==
    {toLowerCase(SubSeq(s, RunEnd(s, i + Len(kw), SpaceChars) + 1,
                        RunEnd(s, RunEnd(s, i + Len(kw), SpaceChars) + 1, WordChars))) :
        i \in {j \in 1..Len(s) :
                  /\ OccursAnyCaseAt(s, kw, j)
                  /\ RunEnd(s, j + Len(kw), SpaceChars) >= j + Len(kw)
                  /\ RunEnd(s, RunEnd(s, j + Len(kw), SpaceChars) + 1, WordChars)
                         > RunEnd(s, j + Len(kw), SpaceChars)}}

ReferencedTables(s) == NamesAfter(s, kwFROM) \cup NamesAfter(s, kwJOIN)

C5_OnlyAllowedTables ==
    /\ (op = "validateSQL" /\ ~(ReferencedTables(sql) \subseteq Range(allowedTables)))
           => validation.valid = FALSE
    /\ (op = "validateAndPrepareSQL" /\ result.success)
           => ReferencedTables(result.sql) \subseteq Range(allowedTables)

\* The same for the names after FROM alone (what check 3 extracts).
C5_HoldsForFromTables ==
    /\ (op = "validateSQL" /\ ~(NamesAfter(sql, kwFROM) \subseteq Range(allowedTables)))
           => validation.valid = FALSE
    /\ (op = "validateAndPrepareSQL" /\ result.success)
           => NamesAfter(result.sql, kwFROM) \subseteq Range(allowedTables)

----------------------------------------------------------------------------
(* C6.  validateSQL returns valid = false for every candidate that         *)
(* contains a keyword of config.blockedKeywords, in any letter case and    *)
(* at any position (leading verb, later statement, inside an identifier).  *)

ContainsBlockedKeyword(s) ==
    \E i \in DOMAIN blockedKeywords : ContainsAnyCase(s, blockedKeywords[i])

C6_BlockedKeywordRejected ==
    (op = "validateSQL" /\ ContainsBlockedKeyword(sql))
        => validation.valid = FALSE

\* A SELECT that carries UPDATE in lower case inside an identifier, and
\* nowhere in upper case, has been rejected.
C6_Witness ==
    /\ op = "validateSQL"
    /\ BeginsWithSelect(sql)
    /\ ContainsAnyCase(sql, UPDATE)
    /\ ~includes(sql, UPDATE)
    /\ \E i \in 2..Len(sql) : OccursAnyCaseAt(sql, UPDATE, i) /\ isWord(sql[i - 1])
    /\ validation.valid = FALSE

----------------------------------------------------------------------------
(* C7.  Every statement returned with success = true by                    *)
(* validateAndPrepareSQL is a single read-only statement: it begins with   *)
(* SELECT, contains no blocked keyword in any case, and holds at most one  *)
(* non-empty statement; the text added by injectTeacherFilter breaks none  *)
(* of the three.                                                           *)

C7_SuccessIsSingleReadOnlyStatement ==
    (op = "validateAndPrepareSQL" /\ result.success)
        => /\ BeginsWithSelect(result.sql)
           /\ ~ContainsBlockedKeyword(result.sql)
           /\ StatementCount(result.sql) <= 1

\* The two parts the code does keep.
C7_HoldsForSelectAndSingleStatement ==
    (op = "validateAndPrepareSQL" /\ result.success)
        => /\ BeginsWithSelect(result.sql)
           /\ StatementCount(result.sql) <= 1

----------------------------------------------------------------------------
(* C8.  For a statement without a WHERE clause, injectTeacherFilter        *)
(* inserts the isolation clause right after the first FROM <table> and     *)
(* leaves every other character unchanged; injectTeacherFilter("SELECT     *)
(* name FROM students", 42) is "SELECT name FROM students WHERE            *)
(* teacher_id=42".                                                         *)

\* The indices where FROM (any case), white space and a name begin.
FromMatches(s) ==
    {i \in 1..Len(s) :
        /\ OccursAnyCaseAt(s, kwFROM, i)
        /\ RunEnd(s, i + 4, SpaceChars) >= i + 4
        /\ RunEnd(s, RunEnd(s, i + 4, SpaceChars) + 1, WordChars)
               > RunEnd(s, i + 4, SpaceChars)}

\* s with clause inserted after index e.
InsertAfter(s, e, clause) == SubSeq(s, 1, e) \o clause \o SubSeq(s, e + 1, Len(s))

\* C8 as the specification states it: a pure insertion of
\* " WHERE teacher_id=<tenantId>" after the first FROM <table>.
C8_InsertsClauseAsSpecified ==
    (/\ op = "injectTeacherFilter"
     /\ ~ContainsAnyCase(sql, kwWHERE)
     /\ FromMatches(sql) # {})
        => LET i == Min(FromMatches(sql))
               e == RunEnd(sql, RunEnd(sql, i + 4, SpaceChars) + 1, WordChars)
           IN  /\ injected = InsertAfter(sql, e,
                       <<" ">> \o kwWHERE \o <<" ">> \o strTeacherId \o <<"=">>
                           \o numberToString(teacherId))
               /\ (sql = scenarioNoWhere /\ teacherId = 42)
                      => injected = scenarioNoWhereSpec

\* C8 as amended: when the letters 'where' occur nowhere in the statement
\* and FROM, white space and a name occur, the first such occurrence is
\* replaced by "FROM <name> WHERE teacher_id = <tenantId>" (the keyword in
\* upper case, one space before the name, spaces around '=') and every
\* character outside it is unchanged; for "SELECT name FROM students" and
\* 42 the result is "SELECT name FROM students WHERE teacher_id = 42".
C8_ReplacesFirstFromMatch ==
    (/\ op = "injectTeacherFilter"
     /\ ~ContainsAnyCase(sql, kwWHERE)
     /\ FromMatches(sql) # {})
        => LET i == Min(FromMatches(sql))
               w == RunEnd(sql, i + 4, SpaceChars)
               e == RunEnd(sql, w + 1, WordChars)
           IN  /\ injected = SubSeq(sql, 1, i - 1)
                                 \o kwFROM \o <<" ">> \o SubSeq(sql, w + 1, e)
                                 \o <<" ">> \o kwWHERE \o <<" ">>
                                 \o IsolationPredicate(teacherId)
                                 \o SubSeq(sql, e + 1, Len(sql))
               /\ (sql = scenarioNoWhere /\ teacherId = 42)
                      => injected = scenarioNoWhereCode

C8_Witness ==
    /\ op = "injectTeacherFilter"
    /\ sql = scenarioNoWhere
    /\ teacherId = 42
    /\ injected = scenarioNoWhereCode

----------------------------------------------------------------------------
(* C9.  injectTeacherFilter is idempotent for a fixed tenant: for every    *)
(* statement s that passes validation,                                     *)
(* injectTeacherFilter(injectTeacherFilter(s, t), t) equals                *)
(* injectTeacherFilter(s, t).                                              *)

\* The number of occurrences of p in s.
Occurrences(s, p) ==
    Cardinality({i \in 1..(Len(s) - Len(p) + 1) : SubSeq(s, i, i + Len(p) - 1) = p})

C9_Idempotent ==
    (op = "injectTeacherFilterAgain" /\ validateSQL(sql, teacherId).valid)
        => injectedAgain = injected

\* C9 as amended: a second application for the same tenant returns its
\* argument only when the first application changed nothing; otherwise it
\* inserts the predicate once more, and its result holds one more
\* occurrence of teacher_id = t than the result of the first application.
C9_SecondInjectionAddsACopy ==
    (op = "injectTeacherFilterAgain" /\ validateSQL(sql, teacherId).valid)
        => IF injected = sql
           THEN injectedAgain = injected
           ELSE /\ injectedAgain # injected
                /\ Occurrences(injectedAgain, IsolationPredicate(teacherId))
                       = Occurrences(injected, IsolationPredicate(teacherId)) + 1

C9_Witness ==
    /\ op = "injectTeacherFilterAgain"
    /\ validateSQL(sql, teacherId).valid
    /\ injected # sql
    /\ Occurrences(injected, IsolationPredicate(teacherId)) = 1
    /\ Occurrences(injectedAgain, IsolationPredicate(teacherId)) = 2

----------------------------------------------------------------------------
(* C10.  validateSQL reports the error of the earliest violated rule in    *)
(* the order (1) begins with SELECT, (2) blocked keyword, (3) table        *)
(* outside the allowlist, (4) isolation column missing; of several blocked *)
(* keywords it reports the first in the order of config.blockedKeywords.   *)

kwTEACHER_ID ==
    <<"T", "E", "A", "C", "H", "E", "R", "_", "I", "D">>

Rule1Violated(s) == ~BeginsWithSelect(s)
Rule2Violated(s) == ContainsBlockedKeyword(s)
Rule3Violated(s) == ~(NamesAfter(s, kwFROM) \subseteq Range(allowedTables))
Rule4Violated(s) == ~ContainsAnyCase(s, kwTEACHER_ID)

FirstBlockedInConfigOrder(s) ==
    blockedKeywords[Min({i \in DOMAIN blockedKeywords :
                            ContainsAnyCase(s, blockedKeywords[i])})]

----------------------------------------------------------------------------
(* C11.  validateAndPrepareSQL injects the tenant filter only after        *)
(* validation has passed: its result has success = true exactly when       *)
(* validateSQL accepted the sanitized statement, and then error is null    *)
(* and sql is injectTeacherFilter of the sanitized statement; when         *)
(* validation fails, success = false, sql is null and error is the         *)
(* validator's reason, so a rejected candidate yields no executable SQL.   *)

C11_InjectOnlyAfterValidation ==
    op = "validateAndPrepareSQL"
        => LET clean == sanitizeSQL(sql)
               v     == validateSQL(clean, teacherId)
           IN  /\ result.success <=> v.valid
               /\ v.valid => /\ result.error = Null
                             /\ result.sql = injectTeacherFilter(clean, teacherId)
               /\ ~v.valid => /\ result.sql = Null
                              /\ result.error = v.error
                              /\ result.error # Null

\* A candidate without the isolation column has been rejected with the
\* validator's reason and no SQL, although injecting the filter first would
\* have given it the column.
C11_Witness ==
    /\ op = "validateAndPrepareSQL"
    /\ ~result.success
    /\ result.sql = Null
    /\ result.error = errTeacherFilter
    /\ validateSQL(injectTeacherFilter(sanitizeSQL(sql), teacherId),
                   teacherId).valid

----------------------------------------------------------------------------
(* The memory store: backend/services/memoryService.js over the table      *)
(* rick_memory.  A row is a record with the columns the service writes;    *)
(* the table is the set of its rows.  created_at is the database clock     *)
(* NOW() at the insert, in whole seconds, so two rows may carry the same   *)
(* time.                                                                   *)

msgMemorySaved ==
    <<"M", "e", "m", "o", "r", "y", " ", "s", "a", "v", "e", "d", " ", "s",
      "u", "c", "c", "e", "s", "s", "f", "u", "l", "l", "y">>

errDeleteNotFound ==
    <<"M", "e", "m", "o", "r", "y", " ", "n", "o", "t", " ", "f", "o", "u",
      "n", "d", " ", "o", "r", " ", "y", "o", "u", " ", "d", "o", " ", "n",
      "o", "t", " ", "h", "a", "v", "e", " ", "p", "e", "r", "m", "i", "s",
      "s", "i", "o", "n", " ", "t", "o", " ", "d", "e", "l", "e", "t", "e",
      " ", "i", "t">>

msgMemoryDeleted ==
    <<"M", "e", "m", "o", "r", "y", " ", "d", "e", "l", "e", "t", "e", "d",
      " ", "s", "u", "c", "c", "e", "s", "s", "f", "u", "l", "l", "y">>

errUpdateNotFound ==
    <<"M", "e", "m", "o", "r", "y", " ", "n", "o", "t", " ", "f", "o", "u",
      "n", "d", " ", "o", "r", " ", "y", "o", "u", " ", "d", "o", " ", "n",
      "o", "t", " ", "h", "a", "v", "e", " ", "p", "e", "r", "m", "i", "s",
      "s", "i", "o", "n", " ", "t", "o", " ", "u", "p", "d", "a", "t", "e",
      " ", "i", "t">>

msgMemoryUpdated ==
    <<"M", "e", "m", "o", "r", "y", " ", "u", "p", "d", "a", "t", "e", "d",
      " ", "s", "u", "c", "c", "e", "s", "s", "f", "u", "l", "l", "y">>

DriverError ==
    <<"c", "o", "n", "n", "e", "c", "t", " ", "E", "C", "O", "N", "N", "R",
      "E", "F", "U", "S", "E", "D">>

cJoeFailed ==
    <<"J", "o", "e", " ", "f", "a", "i", "l", "e", "d", " ", "t", "h", "e",
      " ", "q", "u", "i", "z">>

cAnnLate ==
    <<"A", "n", "n", " ", "w", "a", "s", " ", "l", "a", "t", "e">>

mHowIsBob ==
    <<"h", "o", "w", " ", "i", "s", " ", "B", "o", "b">>

mHelloJo ==
    <<"h", "e", "l", "l", "o", " ", "J", "o">>

mJoeAndAnn ==
    <<"J", "o", "e", " ", "a", "n", "d", " ", "A", "n", "n">>

nJoe ==
    <<"J", "o", "e">>

nAnn ==
    <<"A", "n", "n">>

\* student_id NULL: ids given by the database start at 1.
NoStudent == 0

\* The students table as far as the LEFT JOIN reads it: id and name.
studentsTable == {[id |-> 7, name |-> nAnn]}

\* String.prototype.split(/\s+/).
RECURSIVE splitWhitespace(_)
splitWhitespace(s) ==
    LET ws == {i \in 1..Len(s) : isSpace(s[i])}
    IN  IF ws = {} THEN <<s>>
        ELSE <<SubSeq(s, 1, Min(ws) - 1)>>
                 \o splitWhitespace(SubSeq(s, RunEnd(s, Min(ws), SpaceChars) + 1,
                                           Len(s)))

\* /^[A-Z][a-z]+$/.test(word)
isCapitalizedWord(word) ==
    /\ Len(word) >= 2
    /\ word[1] \in UpperSet
    /\ \A i \in 2..Len(word) : word[i] \in LowerSet

potentialName(word) == Len(word) > 2 /\ isCapitalizedWord(word)

extractStudentNames(msg) == SelectSeq(splitWhitespace(msg), potentialName)

\* column LIKE '%p%' for a p without wildcard characters, under the
\* case-insensitive collation that MySQL gives a text column by default.
like(s, p) == includes(toLowerCase(s), toLowerCase(p))

\* s.name of the LEFT JOIN: the name of the student row, or null.
studentNameOf(m) ==
    IF \E st \in studentsTable : st.id = m.student_id
    THEN (CHOOSE st \in studentsTable : st.id = m.student_id).name
    ELSE Null

\* if (studentName): null and the empty string are falsy.
truthy(str) == str # Null /\ str # <<>>

\* The WHERE clause of getMemories without its tenant condition.
memoriesWhereAnyTeacher(m, tid, studentName) ==
    truthy(studentName)
        => \/ (studentNameOf(m) # Null /\ like(studentNameOf(m), studentName))
           \/ like(m.memory_content, studentName)

\* WHERE m.teacher_id = ? [AND (s.name LIKE ? OR m.memory_content LIKE ?)]
memoriesWhere(m, tid, studentName) ==
    /\ m.teacher_id = tid
    /\ truthy(studentName)
        => \/ (studentNameOf(m) # Null /\ like(studentNameOf(m), studentName))
           \/ like(m.memory_content, studentName)

\* WHERE m.teacher_id = ? AND (memory_content LIKE ? OR ...)
relevantWhere(m, tid, studentNames) ==
    /\ m.teacher_id = tid
    /\ \E i \in DOMAIN studentNames : like(m.memory_content, studentNames[i])

\* ORDER BY m.created_at DESC LIMIT ?: every answer the database may give.
\* Rows of equal created_at come in any order, and any of them may be the
\* ones the limit cuts off.
orderByCreatedAtDescLimit(rows, limit) ==
    LET n == IF Cardinality(rows) < limit THEN Cardinality(rows) ELSE limit
    IN  {q \in [1..n -> rows] :
            /\ \A i, j \in 1..n : i < j => /\ q[i] # q[j]
                                          /\ q[i].created_at >= q[j].created_at
            /\ \A r \in rows \ Range(q) :
                   \A i \in 1..n : q[i].created_at >= r.created_at}

\* memories.map(m => ({id, content, studentName, tags, createdAt}))
toMemory(m) ==
    [id |-> m.id, content |-> m.memory_content,
     studentName |-> studentNameOf(m), tags |-> m.tags,
     createdAt |-> m.created_at]

\* The return value of a service function whose statement failed.
caught == [success |-> FALSE, error |-> DriverError]
caughtMemories == [success |-> FALSE, memories |-> <<>>, error |-> DriverError]

\* getMemories: the set of return values it may give on a table.
getMemories(table, tid, studentName, limit, fails) ==
    IF fails THEN {caughtMemories}
    ELSE {[success |-> TRUE, memories |-> [i \in DOMAIN q |-> toMemory(q[i])]] :
            q \in orderByCreatedAtDescLimit(
                      {m \in table : memoriesWhere(m, tid, studentName)}, limit)}

\* getRelevantMemories falling back to the recent memories also when names
\* were found and no memory mentions one.
getRelevantMemoriesWithFallback(table, tid, msg, limit, fails) ==
    LET studentNames == extractStudentNames(msg)
        matching == {m \in table : relevantWhere(m, tid, studentNames)}
    IN  IF Len(studentNames) = 0 \/ matching = {}
        THEN getMemories(table, tid, Null, limit, fails)
        ELSE IF fails THEN {caughtMemories}
        ELSE {[success |-> TRUE,
               memories |-> [i \in DOMAIN q |-> toMemory(q[i])]] :
                q \in orderByCreatedAtDescLimit(matching, limit)}

\* getRelevantMemories: the set of return values it may give on a table.
getRelevantMemories(table, tid, msg, limit, fails) ==
    LET studentNames == extractStudentNames(msg)
    IN  IF Len(studentNames) = 0
        THEN getMemories(table, tid, Null, limit, fails)
        ELSE IF fails THEN {caughtMemories}
        ELSE {[success |-> TRUE,
               memories |-> [i \in DOMAIN q |-> toMemory(q[i])]] :
                q \in orderByCreatedAtDescLimit(
                          {m \in table : relevantWhere(m, tid, studentNames)},
                          limit)}

\* The row that INSERT INTO rick_memory writes.
insertedRow(id, tid, studentId, memoryContent, createdAt) ==
    [id |-> id, teacher_id |-> tid, student_id |-> studentId,
     memory_content |-> memoryContent,
     tags |-> extractStudentNames(memoryContent), created_at |-> createdAt]

\* WHERE id = ? of a DELETE or UPDATE that leaves the tenant out.
rowMatchesIdOnly(m, tid, memoryId) == m.id = memoryId

\* WHERE id = ? AND teacher_id = ?
rowMatches(m, tid, memoryId) == m.id = memoryId /\ m.teacher_id = tid

\* The table after DELETE FROM rick_memory WHERE id = ? AND teacher_id = ?
deleted(table, tid, memoryId) ==
    {m \in table : ~rowMatches(m, tid, memoryId)}

\* The table after UPDATE rick_memory SET memory_content = ?, tags = ? ...
updated(table, tid, memoryId, newContent) ==
    {IF rowMatches(m, tid, memoryId)
     THEN [m EXCEPT !.memory_content = newContent,
                    !.tags = extractStudentNames(newContent)]
     ELSE m : m \in table}

\* result.affectedRows
affectedRows(table, tid, memoryId) ==
    Cardinality({m \in table : rowMatches(m, tid, memoryId)})

\* deleteMemory telling a memory of another tenant from a missing one.
deleteMemoryResultForbidden(table, tid, memoryId, fails) ==
    IF fails THEN caught
    ELSE IF affectedRows(table, tid, memoryId) = 0
    THEN [success |-> FALSE,
          error |-> IF \E m \in table : m.id = memoryId
                    THEN <<"F", "o", "r", "b", "i", "d", "d", "e", "n">>
                    ELSE errDeleteNotFound]
    ELSE [success |-> TRUE, message |-> msgMemoryDeleted]

deleteMemoryResult(table, tid, memoryId, fails) ==
    IF fails THEN caught
    ELSE IF affectedRows(table, tid, memoryId) = 0
    THEN [success |-> FALSE, error |-> errDeleteNotFound]
    ELSE [success |-> TRUE, message |-> msgMemoryDeleted]

updateMemoryResult(table, tid, memoryId, fails) ==
    IF fails THEN caught
    ELSE IF affectedRows(table, tid, memoryId) = 0
    THEN [success |-> FALSE, error |-> errUpdateNotFound]
    ELSE [success |-> TRUE, message |-> msgMemoryUpdated]

----------------------------------------------------------------------------
(* Commands: parseCommand (utils/commandParser.js) and handleCommand       *)
(* (rickController.js).                                                    *)

cmdRemember ==
    <<"r", "e", "m", "e", "m", "b", "e", "r">>

cmdMemories ==
    <<"m", "e", "m", "o", "r", "i", "e", "s">>

cmdForget ==
    <<"f", "o", "r", "g", "e", "t">>

cmdHelp ==
    <<"h", "e", "l", "p">>

errRememberUsage ==
    <<"P", "l", "e", "a", "s", "e", " ", "p", "r", "o", "v", "i", "d", "e",
      " ", "s", "o", "m", "e", "t", "h", "i", "n", "g", " ", "t", "o", " ",
      "r", "e", "m", "e", "m", "b", "e", "r", ".", " ", "E", "x", "a", "m",
      "p", "l", "e", ":", " ", "/", "r", "e", "m", "e", "m", "b", "e", "r",
      " ", "J", "o", "e", " ", "s", "t", "r", "u", "g", "g", "l", "e", "d",
      " ", "w", "i", "t", "h", " ", "f", "r", "a", "c", "t", "i", "o", "n",
      "s">>

respGotItPrefix ==
    <<"G", "o", "t", " ", "i", "t", "!", " ", "I", "'", "l", "l", " ", "r",
      "e", "m", "e", "m", "b", "e", "r", ":", " ", "\"">>

respSorrySaving ==
    <<"S", "o", "r", "r", "y", ",", " ", "I", " ", "h", "a", "d", " ", "t",
      "r", "o", "u", "b", "l", "e", " ", "s", "a", "v", "i", "n", "g", " ",
      "t", "h", "a", "t", " ", "m", "e", "m", "o", "r", "y", ".">>

respNoMemoriesAboutPrefix ==
    <<"I", " ", "d", "o", "n", "'", "t", " ", "h", "a", "v", "e", " ", "a",
      "n", "y", " ", "m", "e", "m", "o", "r", "i", "e", "s", " ", "a", "b",
      "o", "u", "t", " ">>

respNoMemoriesYet ==
    <<"I", " ", "d", "o", "n", "'", "t", " ", "h", "a", "v", "e", " ", "a",
      "n", "y", " ", "s", "a", "v", "e", "d", " ", "m", "e", "m", "o", "r",
      "i", "e", "s", " ", "y", "e", "t", ".">>

headerAboutPrefix ==
    <<"H", "e", "r", "e", " ", "a", "r", "e", " ", "m", "y", " ", "m", "e",
      "m", "o", "r", "i", "e", "s", " ", "a", "b", "o", "u", "t", " ">>

headerAboutSuffix ==
    <<":", "\n", "\n">>

headerAll ==
    <<"H", "e", "r", "e", " ", "a", "r", "e", " ", "m", "y", " ", "s", "a",
      "v", "e", "d", " ", "m", "e", "m", "o", "r", "i", "e", "s", ":", "\n",
      "\n">>

footerForget ==
    <<"\n", "\n", "U", "s", "e", " ", "/", "f", "o", "r", "g", "e", "t", " ",
      "[", "I", "D", "]", " ", "t", "o", " ", "d", "e", "l", "e", "t", "e",
      " ", "a", " ", "m", "e", "m", "o", "r", "y", ".">>

errForgetUsage ==
    <<"P", "l", "e", "a", "s", "e", " ", "p", "r", "o", "v", "i", "d", "e",
      " ", "a", " ", "m", "e", "m", "o", "r", "y", " ", "I", "D", ".", " ",
      "E", "x", "a", "m", "p", "l", "e", ":", " ", "/", "f", "o", "r", "g",
      "e", "t", " ", "5">>

respMemoryDeleted ==
    <<"M", "e", "m", "o", "r", "y", " ", "d", "e", "l", "e", "t", "e", "d",
      " ", "s", "u", "c", "c", "e", "s", "s", "f", "u", "l", "l", "y", ".">>

errUnknownPrefix ==
    <<"U", "n", "k", "n", "o", "w", "n", " ", "c", "o", "m", "m", "a", "n",
      "d", ":", " ", "/">>

errUnknownSuffix ==
    <<".", " ", "T", "y", "p", "e", " ", "/", "h", "e", "l", "p", " ", "f",
      "o", "r", " ", "a", "v", "a", "i", "l", "a", "b", "l", "e", " ", "c",
      "o", "m", "m", "a", "n", "d", "s", ".">>

helpText ==
    <<"A", "v", "a", "i", "l", "a", "b", "l", "e", " ", "c", "o", "m", "m",
      "a", "n", "d", "s", ":", "\n", "\n", "/", "r", "e", "m", "e", "m", "b",
      "e", "r", " ", "[", "n", "o", "t", "e", "]", " ", "-", " ", "S", "a",
      "v", "e", " ", "a", " ", "n", "o", "t", "e", " ", "t", "o", " ", "m",
      "y", " ", "m", "e", "m", "o", "r", "y", "\n", "E", "x", "a", "m", "p",
      "l", "e", ":", " ", "/", "r", "e", "m", "e", "m", "b", "e", "r", " ",
      "J", "o", "e", " ", "w", "a", "s", " ", "s", "t", "r", "u", "g", "g",
      "l", "i", "n", "g", " ", "w", "i", "t", "h", " ", "q", "u", "a", "d",
      "r", "a", "t", "i", "c", " ", "e", "q", "u", "a", "t", "i", "o", "n",
      "s", "\n", "\n", "/", "m", "e", "m", "o", "r", "i", "e", "s", " ", "[",
      "s", "t", "u", "d", "e", "n", "t", " ", "n", "a", "m", "e", "]", " ",
      "-", " ", "V", "i", "e", "w", " ", "s", "a", "v", "e", "d", " ", "m",
      "e", "m", "o", "r", "i", "e", "s", "\n", "E", "x", "a", "m", "p", "l",
      "e", ":", " ", "/", "m", "e", "m", "o", "r", "i", "e", "s", " ", "J",
      "o", "e", "\n", "\n", "/", "f", "o", "r", "g", "e", "t", " ", "[", "m",
      "e", "m", "o", "r", "y", " ", "I", "D", "]", " ", "-", " ", "D", "e",
      "l", "e", "t", "e", " ", "a", " ", "m", "e", "m", "o", "r", "y", "\n",
      "E", "x", "a", "m", "p", "l", "e", ":", " ", "/", "f", "o", "r", "g",
      "e", "t", " ", "5", "\n", "\n", "/", "h", "e", "l", "p", " ", "-", " ",
      "S", "h", "o", "w", " ", "t", "h", "i", "s", " ", "h", "e", "l", "p",
      " ", "m", "e", "s", "s", "a", "g", "e", "\n", "\n", "Y", "o", "u", " ",
      "c", "a", "n", " ", "a", "l", "s", "o", " ", "a", "s", "k", " ", "m",
      "e", " ", "q", "u", "e", "s", "t", "i", "o", "n", "s", " ", "a", "b",
      "o", "u", "t", " ", "y", "o", "u", "r", " ", "s", "t", "u", "d", "e",
      "n", "t", "s", ",", " ", "g", "r", "a", "d", "e", "s", ",", " ", "a",
      "n", "d", " ", "a", "s", "s", "i", "g", "n", "m", "e", "n", "t", "s",
      "!">>

\* Array.prototype.join.
RECURSIVE join(_, _)
join(parts, sep) ==
    IF Len(parts) = 0 THEN <<>>
    ELSE IF Len(parts) = 1 THEN parts[1]
    ELSE parts[1] \o sep \o join(Tail(parts), sep)

parseCommand(msg) ==
    LET trimmed == trim(msg)
    IN  IF ~startsWith(trimmed, <<"/">>)
        THEN [isCommand |-> FALSE, command |-> Null, args |-> Null,
              original |-> msg]
        ELSE LET parts == split(SubSeq(trimmed, 2, Len(trimmed)), " ")
             IN  [isCommand |-> TRUE,
                  command |-> toLowerCase(parts[1]),
                  args |-> trim(join(Tail(parts), <<" ">>)),
                  original |-> msg]

\* The value of a run of decimal digits.
RECURSIVE digitsValue(_)
digitsValue(ds) ==
    IF Len(ds) = 0 THEN 0
    ELSE 10 * digitsValue(SubSeq(ds, 1, Len(ds) - 1))
             + (CHOOSE d \in 0..9 : Digits[d + 1] = ds[Len(ds)])

\* parseInt(string): leading white space, an optional sign, then the
\* longest run of decimal digits; NaN when there is no digit.  The result
\* is a record, so that NaN is told from every number.
parseInt(str) ==
    LET keep    == {i \in 1..Len(str) : ~isSpace(str[i])}
        t       == IF keep = {} THEN <<>> ELSE SubSeq(str, Min(keep), Len(str))
        signLen == IF Len(t) > 0 /\ t[1] \in {"+", "-"} THEN 1 ELSE 0
        e       == RunEnd(t, signLen + 1, DigitSet)
        n       == digitsValue(SubSeq(t, signLen + 1, e))
    IN  IF e < signLen + 1 THEN [isNaN |-> TRUE, value |-> 0]
        ELSE [isNaN |-> FALSE,
              value |-> IF signLen = 1 /\ t[1] = "-" THEN 0 - n ELSE n]

\* new Date(createdAt).toLocaleDateString(): the clock counts seconds from
\* an arbitrary start, and the text of a time is the text of that count.
toLocaleDateString(t) == numberToString(t)

\* memories.map((m, index) => ...).join('\n') of formatMemoriesForDisplay.
memoryList(memories) ==
    join([i \in DOMAIN memories |->
             numberToString(i) \o <<".", " ", "[", "I", "D", ":", " ">>
                 \o numberToString(memories[i].id) \o <<"]", " ">>
                 \o memories[i].content \o <<" ", "(">>
                 \o toLocaleDateString(memories[i].createdAt) \o <<")">>],
         <<"\n">>)

formatMemoriesForDisplay(memories, studentName) ==
    (IF truthy(studentName)
     THEN headerAboutPrefix \o studentName \o headerAboutSuffix
     ELSE headerAll) \o memoryList(memories) \o footerForget

Ok(body) == [status |-> 200, body |-> body]
BadRequest(errorText) ==
    [status |-> 400, body |-> [success |-> FALSE, error |-> errorText]]

MemOp(name, tid, memoryId, text, limit, fails) ==
    [name |-> name, teacherId |-> tid, memoryId |-> memoryId, text |-> text,
     limit |-> limit, failed |-> fails]

----------------------------------------------------------------------------
(* The service functions as steps on the table.  fails is the outcome of   *)
(* pool.execute: the statement may be refused by the database, and the     *)
(* function then returns what its catch block builds.                      *)

\* The most rows the table has ever been given.
MaxMemories == 2

saveMemory(tid, memoryContent, studentId) ==
    \E fails \in BOOLEAN :
        /\ memOp' = MemOp("saveMemory", tid, 0, memoryContent, 0, fails)
        /\ IF fails
           THEN /\ memResult' = caught
                /\ UNCHANGED <<store, nextId>>
           ELSE /\ store' = store \cup {insertedRow(nextId, tid, studentId,
                                                    memoryContent, now)}
                /\ nextId' = nextId + 1
                /\ memResult' = [success |-> TRUE, memoryId |-> nextId,
                                 message |-> msgMemorySaved]

deleteMemory(tid, memoryId) ==
    \E fails \in BOOLEAN :
        /\ memOp' = MemOp("deleteMemory", tid, memoryId, Null, 0, fails)
        /\ memResult' = deleteMemoryResult(store, tid, memoryId, fails)
        /\ store' = IF fails THEN store ELSE deleted(store, tid, memoryId)
        /\ UNCHANGED nextId

updateMemory(tid, memoryId, newContent) ==
    \E fails \in BOOLEAN :
        /\ memOp' = MemOp("updateMemory", tid, memoryId, newContent, 0, fails)
        /\ memResult' = updateMemoryResult(store, tid, memoryId, fails)
        /\ store' = IF fails THEN store
                    ELSE updated(store, tid, memoryId, newContent)
        /\ UNCHANGED nextId

\* The cases of the switch of handleCommand.
CommandRemember(tid, parsed) ==
    /\ parsed.command = cmdRemember
    /\ IF ~truthy(parsed.args)
       THEN /\ response' = BadRequest(errRememberUsage)
            /\ UNCHANGED <<store, nextId, memOp, memResult>>
       ELSE /\ nextId <= MaxMemories
            /\ saveMemory(tid, parsed.args, NoStudent)
            /\ response' =
                   Ok([success |-> memResult'.success,
                       response |-> IF memResult'.success
                                    THEN respGotItPrefix \o parsed.args
                                             \o <<"\"">>
                                    ELSE respSorrySaving,
                       isCommand |-> TRUE])

CommandMemories(tid, parsed) ==
    /\ parsed.command = cmdMemories
    /\ LET studentName == IF truthy(parsed.args) THEN parsed.args ELSE Null
       IN  \E fails \in BOOLEAN :
           \E memoriesResult \in getMemories(store, tid, studentName, 20, fails) :
               /\ memOp' = MemOp("getMemories", tid, 0, studentName, 20, fails)
               /\ memResult' = memoriesResult
               /\ response' =
                      IF ~memoriesResult.success
                             \/ Len(memoriesResult.memories) = 0
                      THEN Ok([success |-> TRUE,
                               response |->
                                   IF truthy(studentName)
                                   THEN respNoMemoriesAboutPrefix
                                            \o studentName \o <<".">>
                                   ELSE respNoMemoriesYet,
                               memories |-> <<>>,
                               isCommand |-> TRUE])
                      ELSE Ok([success |-> TRUE,
                               response |->
                                   formatMemoriesForDisplay(
                                       memoriesResult.memories, studentName),
                               memories |-> memoriesResult.memories,
                               isCommand |-> TRUE])
    /\ UNCHANGED <<store, nextId>>

\* A /forget that hands whatever it parsed to deleteMemory.
CommandForgetUnchecked(tid, parsed) ==
    /\ parsed.command = cmdForget
    /\ deleteMemory(tid, parseInt(parsed.args).value)
    /\ response' = Ok([success |-> memResult'.success,
                       response |-> IF memResult'.success
                                    THEN respMemoryDeleted
                                    ELSE memResult'.error,
                       isCommand |-> TRUE])

CommandForget(tid, parsed) ==
    /\ parsed.command = cmdForget
    /\ LET memoryId == parseInt(parsed.args)
       IN  IF memoryId.value = 0 \/ memoryId.isNaN
           THEN /\ response' = BadRequest(errForgetUsage)
                /\ UNCHANGED <<store, nextId, memOp, memResult>>
           ELSE /\ deleteMemory(tid, memoryId.value)
                /\ response' =
                       Ok([success |-> memResult'.success,
                           response |-> IF memResult'.success
                                        THEN respMemoryDeleted
                                        ELSE memResult'.error,
                           isCommand |-> TRUE])

\* A /help that empties the table of the tenant.
CommandHelpForgetting(tid, parsed) ==
    /\ parsed.command = cmdHelp
    /\ response' = Ok([success |-> TRUE, response |-> helpText,
                       isCommand |-> TRUE])
    /\ store' = {m \in store : m.teacher_id # tid}
    /\ UNCHANGED <<nextId, memOp, memResult>>

CommandHelp(tid, parsed) ==
    /\ parsed.command = cmdHelp
    /\ response' = Ok([success |-> TRUE, response |-> helpText,
                       isCommand |-> TRUE])
    /\ UNCHANGED <<store, nextId, memOp, memResult>>

CommandDefault(tid, parsed) ==
    /\ parsed.command \notin {cmdRemember, cmdMemories, cmdForget, cmdHelp}
    /\ response' = BadRequest(errUnknownPrefix \o parsed.command
                                  \o errUnknownSuffix)
    /\ UNCHANGED <<store, nextId, memOp, memResult>>

handleCommand(tid, parsed) ==
    \/ CommandRemember(tid, parsed)
    \/ CommandMemories(tid, parsed)
    \/ CommandForget(tid, parsed)
    \/ CommandHelp(tid, parsed)
    \/ CommandDefault(tid, parsed)

----------------------------------------------------------------------------
(* MemorySpec: two tenants call the service functions and send /forget     *)
(* commands in any order.  Each call is one statement of the database, so  *)
(* the calls of concurrent requests interleave as whole steps.  A call     *)
(* leaves its arguments and return value in memOp and memResult until the  *)
(* caller has taken them (Return).                                         *)

mRememberJoe ==
    <<"/", "r", "e", "m", "e", "m", "b", "e", "r", " ", "J", "o", "e", " ",
      "i", "s", " ", "s", "t", "r", "u", "g", "g", "l", "i", "n", "g">>

mRememberNothing ==
    <<"/", "r", "e", "m", "e", "m", "b", "e", "r", " ">>

mMemories ==
    <<"/", "m", "e", "m", "o", "r", "i", "e", "s">>

mMemoriesJoe ==
    <<"/", "m", "e", "m", "o", "r", "i", "e", "s", " ", "J", "o", "e">>

mForget1 ==
    <<"/", "f", "o", "r", "g", "e", "t", " ", "1">>

mForget2 ==
    <<"/", "f", "o", "r", "g", "e", "t", " ", "2">>

mForgetAbc ==
    <<"/", "f", "o", "r", "g", "e", "t", " ", "a", "b", "c">>

mForget0 ==
    <<"/", "f", "o", "r", "g", "e", "t", " ", "0">>

mForgetNone ==
    <<"/", "f", "o", "r", "g", "e", "t">>

mRememberDrop ==
    <<"/", "r", "e", "m", "e", "m", "b", "e", "r", " ", "D", "R", "O", "P",
      " ", "T", "A", "B", "L", "E", " ", "g", "r", "a", "d", "e", "s">>

mHelpUpper ==
    <<" ", " ", "/", "H", "E", "L", "P">>

mUnknownShow ==
    <<"/", "s", "h", "o", "w", " ", "s", "t", "r", "u", "g", "g", "l", "i",
      "n", "g", " ", "s", "t", "u", "d", "e", "n", "t", "s">>

MemoryContents == {cJoeFailed, cAnnLate}
StudentIds == {NoStudent, 7}
StudentNameFilters == {Null, <<>>, nJoe, nAnn}
RelevantMessages == {mJoeAndAnn, mHowIsBob, mHelloJo}
MemoryIds == 1..MaxMemories
Limits == {1, 5}
ForgetMessages == {mForget1, mForget2, mForgetAbc}
CommandMessages ==
    {mRememberJoe, mRememberNothing, mRememberDrop, mMemories, mMemoriesJoe,
     mHelpUpper, mUnknownShow, mForget0, mForgetNone} \cup ForgetMessages

MemoryInit ==
    /\ sql = <<>>
    /\ teacherId = 0
    /\ op = "none"
    /\ cleanSQL = Null
    /\ validation = NoValidation
    /\ injected = Null
    /\ injectedAgain = Null
    /\ result = NoResult
    /\ MemoryIdle
    /\ ChatIdle
    /\ WebIdle

\* NOW() moves on between two statements.
Tick ==
    /\ memOp = NoMemOp
    /\ now < nextId - 1
    /\ now' = now + 1
    /\ UNCHANGED <<store, nextId, memOp, memResult, response>>
    /\ UNCHANGED <<sqlVars, chatVars, webVars>>

CallSaveMemory ==
    /\ memOp = NoMemOp
    /\ nextId <= MaxMemories
    /\ \E tid \in TeacherIds, memoryContent \in MemoryContents,
          studentId \in StudentIds :
           saveMemory(tid, memoryContent, studentId)
    /\ response' = NoResponse
    /\ UNCHANGED <<now, sqlVars, chatVars, webVars>>

CallGetMemories ==
    /\ memOp = NoMemOp
    /\ \E tid \in TeacherIds, studentName \in StudentNameFilters,
          limit \in Limits, fails \in BOOLEAN :
           /\ memOp' = MemOp("getMemories", tid, 0, studentName, limit, fails)
           /\ memResult' \in getMemories(store, tid, studentName, limit, fails)
    /\ response' = NoResponse
    /\ UNCHANGED <<store, nextId, now, sqlVars, chatVars, webVars>>

CallGetRelevantMemories ==
    /\ memOp = NoMemOp
    /\ \E tid \in TeacherIds, msg \in RelevantMessages, limit \in Limits,
          fails \in BOOLEAN :
           /\ memOp' = MemOp("getRelevantMemories", tid, 0, msg, limit, fails)
           /\ memResult' \in getRelevantMemories(store, tid, msg, limit, fails)
    /\ response' = NoResponse
    /\ UNCHANGED <<store, nextId, now, sqlVars, chatVars, webVars>>

CallDeleteMemory ==
    /\ memOp = NoMemOp
    /\ \E tid \in TeacherIds, memoryId \in MemoryIds :
           deleteMemory(tid, memoryId)
    /\ response' = NoResponse
    /\ UNCHANGED <<now, sqlVars, chatVars, webVars>>

CallUpdateMemory ==
    /\ memOp = NoMemOp
    /\ \E tid \in TeacherIds, memoryId \in MemoryIds,
          newContent \in MemoryContents :
           updateMemory(tid, memoryId, newContent)
    /\ response' = NoResponse
    /\ UNCHANGED <<now, sqlVars, chatVars, webVars>>

SendForget ==
    /\ memOp = NoMemOp
    /\ response = NoResponse
    /\ \E tid \in TeacherIds, msg \in ForgetMessages :
           CommandForget(tid, parseCommand(msg))
    /\ UNCHANGED <<now, sqlVars, chatVars, webVars>>

\* The caller has taken the return value (and the client the response).
Return ==
    /\ memOp # NoMemOp \/ response # NoResponse
    /\ memOp' = NoMemOp
    /\ memResult' = NoMemResult
    /\ response' = NoResponse
    /\ UNCHANGED <<store, nextId, now, sqlVars, chatVars, webVars>>

MemoryNext ==
    \/ Tick
    \/ CallSaveMemory
    \/ CallGetMemories
    \/ CallGetRelevantMemories
    \/ CallDeleteMemory
    \/ CallUpdateMemory
    \/ SendForget
    \/ Return

MemorySpec == MemoryInit /\ [][MemoryNext]_vars

----------------------------------------------------------------------------
(* Vocabulary of the memory claims.                                        *)

OwnRows(tid) == {m \in store : m.teacher_id = tid}

IsQuery(o) == o.name \in {"getMemories", "getRelevantMemories"}
IsMutation(o) == o.name \in {"saveMemory", "updateMemory", "deleteMemory"}

\* The id names no row of the caller: the row is another tenant's or there
\* is no such row.
NotOwned(table, tid, memoryId) ==
    ~\E m \in table : m.id = memoryId /\ m.teacher_id = tid

OwnedByAnother(table, tid, memoryId) ==
    \E m \in table : m.id = memoryId /\ m.teacher_id # tid

----------------------------------------------------------------------------
(* C12.  After any sequence of saveMemory, updateMemory and deleteMemory   *)
(* calls by any tenants, every memory that getMemories or                  *)
(* getRelevantMemories returns is a row whose teacher_id is the caller's,  *)
(* for every studentName filter and every message, also when a row of      *)
(* another tenant matches the filter or an extracted name.                 *)

C12_ReturnedMemoriesBelongToCaller ==
    IsQuery(memOp)
        => \A i \in DOMAIN memResult.memories :
               \E m \in store : /\ m.id = memResult.memories[i].id
                                /\ m.memory_content = memResult.memories[i].content
                                /\ m.teacher_id = memOp.teacherId

\* getMemories with a name filter has returned a memory of the caller
\* while a row of the other tenant matches the filter as well.
C12_Witness ==
    /\ memOp.name = "getMemories"
    /\ truthy(memOp.text)
    /\ Len(memResult.memories) > 0
    /\ \E m \in store : /\ m.teacher_id # memOp.teacherId
                        /\ like(m.memory_content, memOp.text)

----------------------------------------------------------------------------
(* C13.  Under any interleaving of the calls of two tenants, no call of a  *)
(* tenant B (saveMemory, updateMemory, deleteMemory with any id, ids of    *)
(* A's memories included) changes the set or the content of the rows of    *)
(* another tenant A, and what getMemories returns to A is what it returns  *)
(* on a table that holds A's rows only.                                    *)

C13_OtherTenantChangesNothing ==
    [][/\ \A a \in TeacherIds :
              IsMutation(memOp') /\ memOp'.teacherId # a
                  => OwnRows(a)' = OwnRows(a)
       /\ memOp'.name = "getMemories"
              => /\ getMemories(store, memOp'.teacherId, memOp'.text,
                                memOp'.limit, memOp'.failed)
                     = getMemories(OwnRows(memOp'.teacherId),
                                   memOp'.teacherId, memOp'.text,
                                   memOp'.limit, memOp'.failed)
                 /\ memResult' \in getMemories(OwnRows(memOp'.teacherId),
                                               memOp'.teacherId, memOp'.text,
                                               memOp'.limit, memOp'.failed)
      ]_vars

\* A tenant has called deleteMemory with the id of a row of the other
\* tenant, the statement ran, and the row is still in the table.
C13_Witness ==
    /\ memOp.name = "deleteMemory"
    /\ ~memOp.failed
    /\ OwnedByAnother(store, memOp.teacherId, memOp.memoryId)

----------------------------------------------------------------------------
(* C14.  deleteMemory and updateMemory return exactly the same result for  *)
(* an id of another tenant's memory as for an id that does not exist       *)
(* (success = false and the same error text), the table stays as it was,   *)
(* and /forget relays that response in both cases.                         *)

NotFoundText(name) ==
    IF name = "deleteMemory" THEN errDeleteNotFound ELSE errUpdateNotFound

\* What the function returns on a table that has no row of that id at all.
ResultWithoutRow(o) ==
    LET table == {m \in store : m.id # o.memoryId}
    IN  IF o.name = "deleteMemory"
        THEN deleteMemoryResult(table, o.teacherId, o.memoryId, o.failed)
        ELSE updateMemoryResult(table, o.teacherId, o.memoryId, o.failed)

C14_ForeignIdIsLikeMissingId ==
    [][memOp'.name \in {"deleteMemory", "updateMemory"}
           /\ NotOwned(store, memOp'.teacherId, memOp'.memoryId)
       => /\ store' = store
          /\ memResult' = ResultWithoutRow(memOp')
          /\ ~memOp'.failed
                 => memResult' = [success |-> FALSE,
                                  error |-> NotFoundText(memOp'.name)]
          /\ response' # NoResponse /\ ~memOp'.failed
                 => response' = Ok([success |-> FALSE,
                                    response |-> errDeleteNotFound,
                                    isCommand |-> TRUE])
      ]_vars

\* /forget with the id of a memory of the other tenant has been answered
\* with the not-found text, and the memory is still there.
C14_Witness ==
    /\ memOp.name = "deleteMemory"
    /\ OwnedByAnother(store, memOp.teacherId, memOp.memoryId)
    /\ response.status = 200
    /\ response.body.response = errDeleteNotFound
    /\ ~response.body.success

----------------------------------------------------------------------------
(* C15.  getRelevantMemories: when extractStudentNames finds no token in   *)
(* the message (a capitalized word longer than 2) the result is that of    *)
(* getMemories(teacherId, null, limit); otherwise it holds only memories   *)
(* of the tenant whose content matches at least one token, most recent     *)
(* first and at most limit, and none of them is left out while there is    *)
(* room, so that it is empty when no memory matches (no fallback).         *)

Mentions(m, studentNames) ==
    \E k \in DOMAIN studentNames : like(m.memory_content, studentNames[k])

C15_RelevantMemories ==
    memOp.name = "getRelevantMemories" /\ ~memOp.failed
        => LET studentNames == extractStudentNames(memOp.text)
               memories == memResult.memories
               matching == {m \in OwnRows(memOp.teacherId) :
                               Mentions(m, studentNames)}
           IN  IF Len(studentNames) = 0
               THEN memResult \in getMemories(store, memOp.teacherId, Null,
                                              memOp.limit, FALSE)
               ELSE /\ memResult.success
                    /\ \A i \in DOMAIN memories :
                           \E m \in matching : toMemory(m) = memories[i]
                    /\ \A i, j \in DOMAIN memories :
                           i < j => /\ memories[i].id # memories[j].id
                                    /\ memories[i].createdAt
                                           >= memories[j].createdAt
                    /\ \A m \in matching :
                           \/ \E i \in DOMAIN memories : memories[i].id = m.id
                           \/ \A i \in DOMAIN memories :
                                  memories[i].createdAt >= m.created_at
                    /\ Len(memories) <= memOp.limit
                    /\ Len(memories) = Cardinality(matching)
                           \/ Len(memories) = memOp.limit
                    /\ matching = {} => memories = <<>>

\* Names were found in the message, the tenant has memories, none of them
\* mentions a name, and the result is empty.
C15_Witness ==
    /\ memOp.name = "getRelevantMemories"
    /\ ~memOp.failed
    /\ Len(extractStudentNames(memOp.text)) > 0
    /\ OwnRows(memOp.teacherId) # {}
    /\ memResult.success
    /\ memResult.memories = <<>>

----------------------------------------------------------------------------
(* The chat controller: handleChat of rickController.js with the language  *)
(* model functions of ollamaService.js.  The language model, the query     *)
(* service and the database are collaborators: each call of one of them    *)
(* ends with any of the outcomes it can have.                              *)

errMessageRequired ==
    <<"M", "e", "s", "s", "a", "g", "e", " ", "i", "s", " ", "r", "e", "q",
      "u", "i", "r", "e", "d">>

respRephrase ==
    <<"I", " ", "h", "a", "d", " ", "t", "r", "o", "u", "b", "l", "e", " ",
      "u", "n", "d", "e", "r", "s", "t", "a", "n", "d", "i", "n", "g", " ",
      "t", "h", "a", "t", " ", "q", "u", "e", "r", "y", ".", " ", "C", "o",
      "u", "l", "d", " ", "y", "o", "u", " ", "r", "e", "p", "h", "r", "a",
      "s", "e", " ", "i", "t", "?">>

respCouldNotExecute ==
    <<"I", " ", "c", "o", "u", "l", "d", "n", "'", "t", " ", "e", "x", "e",
      "c", "u", "t", "e", " ", "t", "h", "a", "t", " ", "q", "u", "e", "r",
      "y", ".", " ", "L", "e", "t", " ", "m", "e", " ", "t", "r", "y", " ",
      "t", "o", " ", "h", "e", "l", "p", " ", "a", "n", "o", "t", "h", "e",
      "r", " ", "w", "a", "y", ".">>

errProcessing ==
    <<"A", "n", " ", "e", "r", "r", "o", "r", " ", "o", "c", "c", "u", "r",
      "r", "e", "d", " ", "w", "h", "i", "l", "e", " ", "p", "r", "o", "c",
      "e", "s", "s", "i", "n", "g", " ", "y", "o", "u", "r", " ", "m", "e",
      "s", "s", "a", "g", "e">>

respQuickTrouble ==
    <<"I", " ", "h", "a", "d", " ", "t", "r", "o", "u", "b", "l", "e", " ",
      "r", "u", "n", "n", "i", "n", "g", " ", "t", "h", "a", "t", " ", "q",
      "u", "e", "r", "y", ".", " ", "P", "l", "e", "a", "s", "e", " ", "t",
      "r", "y", " ", "a", "g", "a", "i", "n", ".">>

respFormatApology ==
    <<"S", "o", "r", "r", "y", ",", " ", "I", " ", "h", "a", "d", " ", "t",
      "r", "o", "u", "b", "l", "e", " ", "f", "o", "r", "m", "a", "t", "t",
      "i", "n", "g", " ", "t", "h", "a", "t", " ", "r", "e", "s", "p", "o",
      "n", "s", "e", ".">>

respChatApology ==
    <<"S", "o", "r", "r", "y", ",", " ", "I", " ", "s", "e", "e", "m", " ",
      "t", "o", " ", "b", "e", " ", "h", "a", "v", "i", "n", "g", " ", "t",
      "r", "o", "u", "b", "l", "e", " ", "r", "i", "g", "h", "t", " ", "n",
      "o", "w", ".">>

kwWho ==
    <<"w", "h", "o">>

kwWhat ==
    <<"w", "h", "a", "t">>

kwHowMany ==
    <<"h", "o", "w", " ", "m", "a", "n", "y">>

kwList ==
    <<"l", "i", "s", "t">>

kwShow ==
    <<"s", "h", "o", "w">>

kwFind ==
    <<"f", "i", "n", "d">>

kwStudent ==
    <<"s", "t", "u", "d", "e", "n", "t">>

kwGrade ==
    <<"g", "r", "a", "d", "e">>

kwAssignment ==
    <<"a", "s", "s", "i", "g", "n", "m", "e", "n", "t">>

kwAverage ==
    <<"a", "v", "e", "r", "a", "g", "e">>

kwScore ==
    <<"s", "c", "o", "r", "e">>

kwMissing ==
    <<"m", "i", "s", "s", "i", "n", "g">>

kwStruggling ==
    <<"s", "t", "r", "u", "g", "g", "l", "i", "n", "g">>

kwAttendance ==
    <<"a", "t", "t", "e", "n", "d", "a", "n", "c", "e">>

kwAbsent ==
    <<"a", "b", "s", "e", "n", "t">>

phFailing ==
    <<"f", "a", "i", "l", "i", "n", "g">>

phBelow60 ==
    <<"b", "e", "l", "o", "w", " ", "6", "0">>

phLowGrade ==
    <<"l", "o", "w", " ", "g", "r", "a", "d", "e">>

phIncomplete ==
    <<"i", "n", "c", "o", "m", "p", "l", "e", "t", "e">>

phNotSubmitted ==
    <<"n", "o", "t", " ", "s", "u", "b", "m", "i", "t", "t", "e", "d">>

phHaventDone ==
    <<"h", "a", "v", "e", "n", "'", "t", " ", "d", "o", "n", "e">>

phSkipping ==
    <<"s", "k", "i", "p", "p", "i", "n", "g">>

phMissingClass ==
    <<"m", "i", "s", "s", "i", "n", "g", " ", "c", "l", "a", "s", "s">>

phClassAverage ==
    <<"c", "l", "a", "s", "s", " ", "a", "v", "e", "r", "a", "g", "e">>

phOverallPerformance ==
    <<"o", "v", "e", "r", "a", "l", "l", " ", "p", "e", "r", "f", "o", "r",
      "m", "a", "n", "c", "e">>

phHowIsMyClass ==
    <<"h", "o", "w", " ", "i", "s", " ", "m", "y", " ", "c", "l", "a", "s",
      "s">>

phImproved ==
    <<"i", "m", "p", "r", "o", "v", "e", "d">>

phGettingBetter ==
    <<"g", "e", "t", "t", "i", "n", "g", " ", "b", "e", "t", "t", "e", "r">>

phProgress ==
    <<"p", "r", "o", "g", "r", "e", "s", "s">>

phCompletionRate ==
    <<"c", "o", "m", "p", "l", "e", "t", "i", "o", "n", " ", "r", "a", "t",
      "e">>

phWhoCompleted ==
    <<"w", "h", "o", " ", "c", "o", "m", "p", "l", "e", "t", "e", "d">>

phAssignmentStatus ==
    <<"a", "s", "s", "i", "g", "n", "m", "e", "n", "t", " ", "s", "t", "a",
      "t", "u", "s">>

struggling_students ==
    <<"s", "t", "r", "u", "g", "g", "l", "i", "n", "g", "_", "s", "t", "u",
      "d", "e", "n", "t", "s">>

missing_assignments ==
    <<"m", "i", "s", "s", "i", "n", "g", "_", "a", "s", "s", "i", "g", "n",
      "m", "e", "n", "t", "s">>

attendance_issues ==
    <<"a", "t", "t", "e", "n", "d", "a", "n", "c", "e", "_", "i", "s", "s",
      "u", "e", "s">>

class_average ==
    <<"c", "l", "a", "s", "s", "_", "a", "v", "e", "r", "a", "g", "e">>

recent_improvements ==
    <<"r", "e", "c", "e", "n", "t", "_", "i", "m", "p", "r", "o", "v", "e",
      "m", "e", "n", "t", "s">>

assignment_completion ==
    <<"a", "s", "s", "i", "g", "n", "m", "e", "n", "t", "_", "c", "o", "m",
      "p", "l", "e", "t", "i", "o", "n">>

OllamaError ==
    <<"t", "i", "m", "e", "o", "u", "t", " ", "o", "f", " ", "3", "0", "0",
      "0", "0", "m", "s", " ", "e", "x", "c", "e", "e", "d", "e", "d">>

BackendError ==
    <<"U", "n", "k", "n", "o", "w", "n", " ", "c", "o", "l", "u", "m", "n",
      " ", "'", "g", "r", "a", "d", "e", "'", " ", "i", "n", " ", "'", "f",
      "i", "e", "l", "d", " ", "l", "i", "s", "t", "'">>

mEmpty ==
    <<>>

mBlank ==
    <<" ", " ">>

mWhoIsStruggling ==
    <<"W", "h", "o", " ", "i", "s", " ", "s", "t", "r", "u", "g", "g", "l",
      "i", "n", "g", "?">>

mClassAverage ==
    <<"h", "o", "w", " ", "i", "s", " ", "m", "y", " ", "c", "l", "a", "s",
      "s">>

mListStudents ==
    <<"l", "i", "s", "t", " ", "m", "y", " ", "s", "t", "u", "d", "e", "n",
      "t", "s">>

mHelloThere ==
    <<"h", "e", "l", "l", "o", " ", "t", "h", "e", "r", "e">>

mThanksRick ==
    <<"T", "h", "a", "n", "k", "s", " ", "R", "i", "c", "k">>

tPlainSelect ==
    <<"S", "E", "L", "E", "C", "T", " ", "t", "e", "a", "c", "h", "e", "r",
      "_", "i", "d", " ", "F", "R", "O", "M", " ", "s", "t", "u", "d", "e",
      "n", "t", "s">>

tExplained ==
    <<"H", "e", "r", "e", " ", "i", "s", " ", "t", "h", "e", " ", "q", "u",
      "e", "r", "y", ":", "\n", "s", "e", "l", "e", "c", "t", " ", "t", "e",
      "a", "c", "h", "e", "r", "_", "i", "d", " ", "f", "r", "o", "m", " ",
      "g", "r", "a", "d", "e", "s", " ">>

tDropTable ==
    <<"D", "R", "O", "P", " ", "T", "A", "B", "L", "E", " ", "g", "r", "a",
      "d", "e", "s">>

tJoinMemory ==
    <<"S", "E", "L", "E", "C", "T", " ", "t", "e", "a", "c", "h", "e", "r",
      "_", "i", "d", " ", "F", "R", "O", "M", " ", "r", "i", "c", "k", "_",
      "m", "e", "m", "o", "r", "y">>

tAnswer ==
    <<" ", "J", "o", "e", " ", "h", "a", "s", " ", "2", " ", "m", "i", "s",
      "s", "i", "n", "g", " ", "a", "s", "s", "i", "g", "n", "m", "e", "n",
      "t", "s", ".", " ">>

\* The grave accent character, written by name.
\* Texts of contextBuilder and of the router's error handler, a reply of the
\* language model whose statement spans three lines, and a message with the
\* trigger phrase 'missing class'.
strNoPreviousMemories ==
    <<"N", "o", " ", "p", "r", "e", "v", "i", "o", "u", "s", " ", "m", "e",
      "m", "o", "r", "i", "e", "s", " ", "a", "b", "o", "u", "t", " ", "t",
      "h", "i", "s", " ", "t", "o", "p", "i", "c", ".">>

strMemoryLabel ==
    <<"M", "e", "m", "o", "r", "y", " ">>

strInvalidDate ==
    <<"I", "n", "v", "a", "l", "i", "d", " ", "D", "a", "t", "e">>

strUndefined ==
    <<"u", "n", "d", "e", "f", "i", "n", "e", "d">>

errUnexpected ==
    <<"A", "n", " ", "u", "n", "e", "x", "p", "e", "c", "t", "e", "d", " ",
      "e", "r", "r", "o", "r", " ", "o", "c", "c", "u", "r", "r", "e", "d">>

tMultiLine ==
    <<"S", "E", "L", "E", "C", "T", " ", "n", "a", "m", "e", "\n", "F", "R",
      "O", "M", " ", "s", "t", "u", "d", "e", "n", "t", "s", "\n", "W", "H",
      "E", "R", "E", " ", "t", "e", "a", "c", "h", "e", "r", "_", "i", "d",
      " ", "=", " ", "1">>

mMissingClass ==
    <<"w", "h", "o", " ", "i", "s", " ", "m", "i", "s", "s", "i", "n", "g",
      " ", "c", "l", "a", "s", "s">>

Backtick == "grave"

fence == <<Backtick, Backtick, Backtick>>
fenceSql == fence \o <<"s", "q", "l">>

\* A reply of the language model that wraps the statement in a code block.
tFenced == fenceSql \o <<"\n">> \o tPlainSelect \o <<"\n">> \o fence

dataKeywords ==
    <<kwWho, kwWhat, kwHowMany, kwList, kwShow, kwFind, kwStudent, kwGrade,
      kwAssignment, kwAverage, kwScore, kwMissing, kwStruggling, kwAttendance,
      kwAbsent>>

requiresDataQuery(msg) ==
    LET lowerMessage == toLowerCase(msg)
    IN  \E i \in DOMAIN dataKeywords : includes(lowerMessage, dataKeywords[i])

\* The entries of patterns, in the order of the object literal.
patterns ==
    <<[queryType |-> struggling_students,
       keywords |-> <<kwStruggling, phFailing, phBelow60, phLowGrade>>],
      [queryType |-> missing_assignments,
       keywords |-> <<kwMissing, phIncomplete, phNotSubmitted, phHaventDone>>],
      [queryType |-> attendance_issues,
       keywords |-> <<kwAttendance, kwAbsent, phSkipping, phMissingClass>>],
      [queryType |-> class_average,
       keywords |-> <<phClassAverage, phOverallPerformance, phHowIsMyClass>>],
      [queryType |-> recent_improvements,
       keywords |-> <<phImproved, phGettingBetter, phProgress>>],
      [queryType |-> assignment_completion,
       keywords |-> <<phCompletionRate, phWhoCompleted, phAssignmentStatus>>]>>

\* matchQuickQuery: the first query type with a keyword in the message, or
\* null.
matchQuickQuery(msg) ==
    LET lowerMessage == toLowerCase(msg)
        hits == {i \in DOMAIN patterns :
                    \E k \in DOMAIN patterns[i].keywords :
                        includes(lowerMessage, patterns[i].keywords[k])}
    IN  IF hits = {} THEN Null ELSE patterns[Min(hits)].queryType

\* The branch handleChat takes with quick queries tried before commands.
routeQuickQueryFirst(msg) ==
    IF trim(msg) = <<>> THEN "empty"
    ELSE IF matchQuickQuery(msg) # Null THEN "handleQuickQuery"
    ELSE IF parseCommand(msg).isCommand THEN "handleCommand"
    ELSE "freeform"

\* The branch handleChat takes: its tests in the order of the code.
route(msg) ==
    IF trim(msg) = <<>> THEN "empty"
    ELSE IF parseCommand(msg).isCommand THEN "handleCommand"
    ELSE IF matchQuickQuery(msg) # Null THEN "handleQuickQuery"
    ELSE "freeform"

\* String.prototype.replace(/pattern/gi, ''): every occurrence of the
\* letters of pattern, in any case, is removed, scanning from the left.
RECURSIVE removeAll(_, _)
removeAll(s, pattern) ==
    LET at == {i \in 1..(Len(s) - Len(pattern) + 1) :
                  toLowerCase(SubSeq(s, i, i + Len(pattern) - 1))
                      = toLowerCase(pattern)}
    IN  IF at = {} THEN s
        ELSE SubSeq(s, 1, Min(at) - 1)
                 \o removeAll(SubSeq(s, Min(at) + Len(pattern), Len(s)), pattern)

\* Lines 83-94 of generateSQL: what is kept of the model's reply.
extractSQL(reply) ==
    LET unfenced == trim(removeAll(removeAll(trim(reply), fenceSql), fence))
        lines    == split(unfenced, "\n")
        found    == {i \in DOMAIN lines :
                        startsWith(toUpperCase(trim(lines[i])), kwSELECT)}
    IN  trim(IF found = {} THEN unfenced ELSE lines[Min(found)])

\* generateResponse: the reply of the language model, or its failure.
LLMFailure == [success |-> FALSE, error |-> OllamaError, response |-> Null]
LLMReply(text) == [success |-> TRUE, response |-> text]

\* A reply of the server that has no text: response.data.response is
\* undefined and generateResponse hands it on with success: true.
Undefined == <<"undefined">>
LLMReplyWithoutText == [success |-> TRUE, response |-> Undefined]

\* result.response.trim() raises a TypeError when the reply has no text.
throwsTypeError(llm) == llm.success /\ llm.response = Undefined

generateSQL(llm) ==
    IF ~llm.success
    THEN [success |-> FALSE, sql |-> Null, error |-> llm.error]
    ELSE [success |-> TRUE, sql |-> extractSQL(llm.response), error |-> Null]

formatResponse(llm) ==
    IF ~llm.success
    THEN [success |-> FALSE, response |-> respFormatApology,
          error |-> llm.error]
    ELSE [success |-> TRUE, response |-> trim(llm.response), error |-> Null]

\* chatResponse answering a failure with the apology of formatResponse.
chatResponseOtherApology(llm) == formatResponse(llm)

chatResponse(llm) ==
    IF ~llm.success
    THEN [success |-> FALSE, response |-> respChatApology,
          error |-> llm.error]
    ELSE [success |-> TRUE, response |-> trim(llm.response), error |-> Null]

\* The rows a query returns: opaque to the controller.
queryRows == <<[name |-> nJoe, grade |-> 55]>>

\* queryService.executeDynamicQuery: the statement is validated and given
\* the tenant filter, then run; backendFails is the outcome of running it.
executeDynamicQuery(statement, tid, backendFails) ==
    LET prepared == validateAndPrepareSQL(statement, tid)
    IN  IF ~prepared.success
        THEN [success |-> FALSE, error |-> prepared.error, results |-> <<>>]
        ELSE IF backendFails
        THEN [success |-> FALSE, error |-> BackendError, results |-> <<>>]
        ELSE [success |-> TRUE, error |-> Null, results |-> queryRows]

\* queryService.executePredefinedQuery: a hand-written statement is run.
executePredefinedQuery(queryType, tid, backendFails) ==
    IF backendFails
    THEN [success |-> FALSE, error |-> BackendError, results |-> <<>>]
    ELSE [success |-> TRUE, error |-> Null, results |-> queryRows]


----------------------------------------------------------------------------
(* contextBuilder: the memories as they are written into the prompt.       *)

\* new Date(memory[name]).toLocaleDateString(): a property the object does
\* not have is undefined, and the date made of it is invalid.
dateOfProperty(memory, name) ==
    IF name \in DOMAIN memory THEN toLocaleDateString(memory[name])
    ELSE strInvalidDate

\* ${memory[name]} in a template literal.
textOfProperty(memory, name) ==
    IF name \in DOMAIN memory THEN memory[name] ELSE strUndefined

formatMemories(memories) ==
    IF Len(memories) = 0 THEN strNoPreviousMemories
    ELSE join([i \in DOMAIN memories |->
                  strMemoryLabel \o numberToString(i) \o <<" ", "(">>
                      \o dateOfProperty(memories[i], "created_at")
                      \o <<")", ":", " ">>
                      \o textOfProperty(memories[i], "memory_content")],
              <<"\n">>)

\* Lines 39-50 of handleChat: the memories of a failed lookup are none.
chatContext(msg, memoriesResult) ==
    LET memories == IF memoriesResult.success THEN memoriesResult.memories
                    ELSE <<>>
    IN  [userMessage |-> msg, memories |-> formatMemories(memories)]
----------------------------------------------------------------------------
(* ChatSpec: one inbound message of one tenant, handled by handleChat.     *)
(* pc is the statement handleChat (or the handler it returned) waits at;   *)
(* calls lists the functions called for the message, in order.             *)

\* Every trigger phrase of patterns, sent as a message of its own.
TriggerPhrases ==
    UNION {{patterns[i].keywords[k] : k \in DOMAIN patterns[i].keywords} :
              i \in DOMAIN patterns}

ChatMessages ==
    {mEmpty, mBlank, mWhoIsStruggling, mClassAverage, mListStudents,
     mHelloThere, mThanksRick, mMissingClass}
        \cup CommandMessages \cup TriggerPhrases

\* Replies of the language model to the request for a statement.
GeneratedReplies ==
    {tPlainSelect, tExplained, tDropTable, tJoinMemory, tFenced, tMultiLine}

SQLOutcomes ==
    {LLMFailure, LLMReplyWithoutText}
        \cup {LLMReply(t) : t \in GeneratedReplies}
AnswerOutcomes == {LLMFailure, LLMReplyWithoutText, LLMReply(tAnswer)}

\* The table when the message arrives: one memory of tenant 5.
InitialMemories == {insertedRow(1, 5, NoStudent, cJoeFailed, 0)}

ChatInit ==
    /\ sql = <<>>
    /\ teacherId \in TeacherIds
    /\ op = "none"
    /\ cleanSQL = Null
    /\ validation = NoValidation
    /\ injected = Null
    /\ injectedAgain = Null
    /\ result = NoResult
    /\ store = InitialMemories
    /\ nextId = 2
    /\ now = 1
    /\ memOp = NoMemOp
    /\ memResult = NoMemResult
    /\ response = NoResponse
    /\ message \in ChatMessages
    /\ pc = "received"
    /\ calls = <<>>
    /\ sqlResult = NoResult
    /\ queryResult = NoResult
    /\ formatted = NoResult
    /\ context = Null
    /\ WebIdle

\* Where handleChat goes after generateSQL although it failed.
afterGenerateSQLAlways(sqlRes) == "executeDynamicQuery"

\* Where handleChat goes after generateSQL.
afterGenerateSQL(sqlRes) ==
    IF ~sqlRes.success THEN "responded" ELSE "executeDynamicQuery"

\* A failed predefined query answered with a server error.
quickQueryFailedHard ==
    [status |-> 500, body |-> [success |-> FALSE, error |-> respQuickTrouble]]

\* res.json of handleQuickQuery for a failed predefined query.
quickQueryFailed ==
    Ok([success |-> TRUE, response |-> respQuickTrouble, data |-> <<>>])

\* res.json of handleChat for a failed dynamic query.
dynamicQueryFailed(queryRes) ==
    Ok([success |-> TRUE, response |-> respCouldNotExecute,
        error |-> queryRes.error])

\* The catch block of handleChat.
processingError ==
    [status |-> 500, body |-> [success |-> FALSE, error |-> errProcessing]]

\* The error handler of the router.
unexpectedError ==
    [status |-> 500, body |-> [success |-> FALSE, error |-> errUnexpected]]

\* res.json of handleQuickQuery with the rows left out when formatting failed.
quickQueryAnsweredDataOnSuccess(queryType, queryRes, fmt) ==
    Ok([success |-> TRUE, response |-> fmt.response,
        data |-> IF fmt.success THEN queryRes.results ELSE <<>>,
        queryType |-> queryType])

\* res.json of handleQuickQuery for a query that succeeded.
quickQueryAnswered(queryType, queryRes, fmt) ==
    Ok([success |-> TRUE, response |-> fmt.response,
        data |-> queryRes.results, queryType |-> queryType])

\* Lines 14-36: the tests made before the first await.
Receive ==
    /\ pc = "received"
    /\ LET branch == route(message)
       IN  IF branch = "empty"
           THEN /\ response' = BadRequest(errMessageRequired)
                /\ pc' = "responded"
           ELSE /\ pc' = IF branch = "freeform" THEN "getRelevantMemories"
                         ELSE branch
                /\ UNCHANGED response
    /\ UNCHANGED <<store, nextId, now, memOp, memResult>>
    /\ UNCHANGED <<sqlVars, message, calls, sqlResult, queryResult, formatted,
                   context, webVars>>

HandleCommand ==
    /\ pc = "handleCommand"
    /\ handleCommand(teacherId, parseCommand(message))
    /\ calls' = Append(calls, "handleCommand")
    /\ pc' = "responded"
    /\ UNCHANGED <<now, sqlVars, message, sqlResult, queryResult, formatted,
                   context, webVars>>

\* handleQuickQuery up to the return of executePredefinedQuery.
HandleQuickQuery ==
    /\ pc = "handleQuickQuery"
    /\ \E backendFails \in BOOLEAN :
           queryResult' = executePredefinedQuery(matchQuickQuery(message),
                                                 teacherId, backendFails)
    /\ calls' = calls \o <<"handleQuickQuery", "executePredefinedQuery">>
    /\ IF ~queryResult'.success
       THEN /\ response' = quickQueryFailed
            /\ pc' = "responded"
       ELSE /\ pc' = "quickFormatResponse"
            /\ UNCHANGED response
    /\ UNCHANGED <<store, nextId, now, memOp, memResult>>
    /\ UNCHANGED <<sqlVars, message, sqlResult, formatted, context, webVars>>

\* handleQuickQuery from formatResponse to its res.json.  formatResponse is
\* awaited outside every try block: what it throws rejects the promise that
\* handleChat has returned.
QuickFormatResponse ==
    /\ pc = "quickFormatResponse"
    /\ calls' = calls \o <<"formatResponse", "generateResponse">>
    /\ \E llm \in AnswerOutcomes :
           IF throwsTypeError(llm)
           THEN /\ pc' = "rejected"
                /\ UNCHANGED <<formatted, response>>
           ELSE /\ formatted' = formatResponse(llm)
                /\ response' = quickQueryAnswered(matchQuickQuery(message),
                                                  queryResult, formatted')
                /\ pc' = "responded"
    /\ UNCHANGED <<store, nextId, now, memOp, memResult>>
    /\ UNCHANGED <<sqlVars, message, sqlResult, queryResult, context, webVars>>

\* The rejection reaches the error handler of the router, where the
\* framework hands rejected promises of handlers on (Express 5).
ErrorMiddleware ==
    /\ pc = "rejected"
    /\ response' = unexpectedError
    /\ pc' = "responded"
    /\ UNCHANGED <<store, nextId, now, memOp, memResult>>
    /\ UNCHANGED <<sqlVars, message, calls, sqlResult, queryResult, formatted,
                   context, webVars>>

\* The rejection is handled by nobody, where the framework ignores what a
\* handler returns (Express 4): the request gets no response.
UnhandledRejection ==
    /\ pc = "rejected"
    /\ pc' = "unhandled"
    /\ UNCHANGED <<memVars, sqlVars, message, calls, sqlResult, queryResult,
                   formatted, context, webVars>>

\* Lines 38-55: the memories are fetched, the context is built and the
\* message is classified.
GetRelevantMemories ==
    /\ pc = "getRelevantMemories"
    /\ \E fails \in BOOLEAN :
           /\ memOp' = MemOp("getRelevantMemories", teacherId, 0, message, 5,
                             fails)
           /\ memResult' \in getRelevantMemories(store, teacherId, message, 5,
                                                 fails)
    /\ context' = chatContext(message, memResult')
    /\ calls' = calls \o <<"getRelevantMemories", "requiresDataQuery">>
    /\ pc' = IF requiresDataQuery(message) THEN "generateSQL"
             ELSE "chatResponse"
    /\ UNCHANGED <<store, nextId, now, response>>
    /\ UNCHANGED <<sqlVars, message, sqlResult, queryResult, formatted,
                   webVars>>

GenerateSQL ==
    /\ pc = "generateSQL"
    /\ calls' = calls \o <<"generateSQL", "generateResponse">>
    /\ \E llm \in SQLOutcomes :
           IF throwsTypeError(llm)
           THEN /\ response' = processingError
                /\ pc' = "responded"
                /\ UNCHANGED sqlResult
           ELSE /\ sqlResult' = generateSQL(llm)
                /\ pc' = afterGenerateSQL(sqlResult')
                /\ response' = IF ~sqlResult'.success
                               THEN Ok([success |-> TRUE,
                                        response |-> respRephrase,
                                        needsData |-> FALSE])
                               ELSE response
    /\ UNCHANGED <<store, nextId, now, memOp, memResult>>
    /\ UNCHANGED <<sqlVars, message, queryResult, formatted, context, webVars>>

ExecuteDynamicQuery ==
    /\ pc = "executeDynamicQuery"
    /\ \E backendFails \in BOOLEAN :
           queryResult' = executeDynamicQuery(sqlResult.sql, teacherId,
                                              backendFails)
    /\ calls' = Append(calls, "executeDynamicQuery")
    /\ IF ~queryResult'.success
       THEN /\ response' = dynamicQueryFailed(queryResult')
            /\ pc' = "responded"
       ELSE /\ pc' = "formatResponse"
            /\ UNCHANGED response
    /\ UNCHANGED <<store, nextId, now, memOp, memResult>>
    /\ UNCHANGED <<sqlVars, message, sqlResult, formatted, context, webVars>>

FormatResponse ==
    /\ pc = "formatResponse"
    /\ calls' = calls \o <<"formatResponse", "generateResponse">>
    /\ \E llm \in AnswerOutcomes :
           IF throwsTypeError(llm)
           THEN /\ response' = processingError
                /\ UNCHANGED formatted
           ELSE /\ formatted' = formatResponse(llm)
                /\ response' = Ok([success |-> TRUE,
                                   response |-> formatted'.response,
                                   data |-> queryResult.results,
                                   needsData |-> TRUE])
    /\ pc' = "responded"
    /\ UNCHANGED <<store, nextId, now, memOp, memResult>>
    /\ UNCHANGED <<sqlVars, message, sqlResult, queryResult, context, webVars>>

ChatResponse ==
    /\ pc = "chatResponse"
    /\ calls' = calls \o <<"chatResponse", "generateResponse">>
    /\ \E llm \in AnswerOutcomes :
           IF throwsTypeError(llm)
           THEN /\ response' = processingError
                /\ UNCHANGED formatted
           ELSE /\ formatted' = chatResponse(llm)
                /\ response' = Ok([success |-> TRUE,
                                   response |-> formatted'.response,
                                   needsData |-> FALSE])
    /\ pc' = "responded"
    /\ UNCHANGED <<store, nextId, now, memOp, memResult>>
    /\ UNCHANGED <<sqlVars, message, sqlResult, queryResult, context, webVars>>

\* The messages the next request may carry: the table is given no more
\* than MaxMemories rows.
NextMessages ==
    IF nextId <= MaxMemories THEN ChatMessages
    ELSE {m \in ChatMessages :
             ~(parseCommand(m).command = cmdRemember
                   /\ truthy(parseCommand(m).args))}

\* The same tenant sends another message once the last one is answered.
NextMessage ==
    /\ pc = "responded"
    /\ message' \in NextMessages
    /\ pc' = "received"
    /\ calls' = <<>>
    /\ sqlResult' = NoResult
    /\ queryResult' = NoResult
    /\ formatted' = NoResult
    /\ context' = Null
    /\ memOp' = NoMemOp
    /\ memResult' = NoMemResult
    /\ response' = NoResponse
    /\ UNCHANGED <<store, nextId, now, sqlVars, webVars>>

ChatNext ==
    \/ Receive
    \/ HandleCommand
    \/ HandleQuickQuery
    \/ QuickFormatResponse
    \/ ErrorMiddleware
    \/ UnhandledRejection
    \/ GetRelevantMemories
    \/ GenerateSQL
    \/ ExecuteDynamicQuery
    \/ FormatResponse
    \/ ChatResponse
    \/ NextMessage

ChatSpec == ChatInit /\ [][ChatNext]_vars

----------------------------------------------------------------------------
(* Vocabulary of the controller claims.                                    *)

Called(f) == \E i \in DOMAIN calls : calls[i] = f
Count(f) == Cardinality({i \in DOMAIN calls : calls[i] = f})

\* Every call of g comes after a call of f.
Before(f, g) ==
    \A j \in DOMAIN calls :
        calls[j] = g => \E i \in 1..(j - 1) : calls[i] = f

CommandPath == Called("handleCommand")
QuickQueryPath == Called("handleQuickQuery")
FreeformPath == Called("getRelevantMemories")

LeadingSlash(msg) == startsWith(trim(msg), <<"/">>)

\* The name after the slash is one of the four commands.
KnownCommand(msg) ==
    \E c \in {cmdRemember, cmdMemories, cmdForget, cmdHelp} :
        LET t == toLowerCase(trim(msg))
        IN  /\ startsWith(t, <<"/">> \o c)
            /\ Len(t) = Len(c) + 1 \/ t[Len(c) + 2] = " "

----------------------------------------------------------------------------
(* C16.  handleChat sends every non-empty message down exactly one of the  *)
(* command, quick query and freeform paths, commands first, then quick     *)
(* queries: a message whose trimmed text begins with a slash is handled by *)
(* handleCommand and causes no predefined query, no call of the language   *)
(* model and no dynamic query, also when it holds a trigger phrase or a    *)
(* data keyword and also when the command is unknown (answered with 400).  *)

C16_CommandsTakePrecedence ==
    /\ pc = "responded" /\ trim(message) # <<>>
           => Cardinality({p \in {"handleCommand", "handleQuickQuery",
                                  "getRelevantMemories"} : Called(p)}) = 1
    /\ pc # "received" /\ LeadingSlash(message)
           => /\ pc \in {"handleCommand", "responded"}
              /\ \A i \in DOMAIN calls : calls[i] = "handleCommand"
              /\ sqlResult = NoResult
              /\ queryResult = NoResult
              /\ formatted = NoResult
              /\ pc = "responded"
                     => /\ CommandPath
                        /\ ~KnownCommand(message) => response.status = 400
    /\ QuickQueryPath
           => ~LeadingSlash(message) /\ matchQuickQuery(message) # Null
    /\ FreeformPath
           => ~LeadingSlash(message) /\ matchQuickQuery(message) = Null

\* An unknown command that holds a trigger phrase and a data keyword has
\* been answered with 400 by handleCommand alone.
C16_Witness ==
    /\ pc = "responded"
    /\ LeadingSlash(message)
    /\ ~KnownCommand(message)
    /\ matchQuickQuery(message) # Null
    /\ requiresDataQuery(message)
    /\ calls = <<"handleCommand">>
    /\ response.status = 400

----------------------------------------------------------------------------
(* C17.  On the freeform path the steps come in the order classify,        *)
(* generateSQL, executeDynamicQuery, formatResponse, each only after the   *)
(* one before it succeeded: no dynamic query unless generateSQL returned   *)
(* success, no formatResponse unless the query succeeded, and for a        *)
(* message that requiresDataQuery does not accept, neither generateSQL nor *)
(* executeDynamicQuery is called and chatResponse alone answers.           *)

C17_FreeformStepsInOrder ==
    FreeformPath
        => /\ Before("requiresDataQuery", "generateSQL")
           /\ Before("requiresDataQuery", "chatResponse")
           /\ Before("generateSQL", "executeDynamicQuery")
           /\ Before("executeDynamicQuery", "formatResponse")
           /\ Called("executeDynamicQuery") => sqlResult.success
           /\ Called("formatResponse") => queryResult.success
           /\ ~requiresDataQuery(message)
                  => /\ ~Called("generateSQL")
                     /\ ~Called("executeDynamicQuery")
                     /\ ~Called("formatResponse")
                     /\ pc = "responded" => Called("chatResponse")
           /\ requiresDataQuery(message) => ~Called("chatResponse")

\* All four steps have run for one message.
C17_Witness ==
    /\ pc = "responded"
    /\ calls = <<"getRelevantMemories", "requiresDataQuery", "generateSQL",
                 "generateResponse", "executeDynamicQuery", "formatResponse",
                 "generateResponse">>
    /\ sqlResult.success
    /\ queryResult.success

----------------------------------------------------------------------------
(* C18.  When executeDynamicQuery returns success = false (validation,     *)
(* injection or execution of the proposed statement failed) and when a     *)
(* predefined query fails, the answer is an ordinary response, status 200  *)
(* with success = true and a fixed polite text, never a 4xx or 5xx.        *)

QueryFailed ==
    /\ Called("executeDynamicQuery") \/ Called("executePredefinedQuery")
    /\ ~queryResult.success

C18_QueryFailureIsSoft ==
    QueryFailed
        => /\ pc = "responded"
           /\ response.status = 200
           /\ response.body.success
           /\ response.body.response
                  = IF QuickQueryPath THEN respQuickTrouble
                    ELSE respCouldNotExecute

\* A predefined query has failed and the message has been answered.
C18_Witness ==
    /\ QuickQueryPath
    /\ ~queryResult.success
    /\ response = quickQueryFailed

----------------------------------------------------------------------------
(* C19.  When validation or execution of a query fails, the body of the    *)
(* response holds a fixed user-safe text only: the validator's reason or   *)
(* the backend's error message (queryResult.error) is in no field of it.   *)

\* The text fields of a response body.
TextFields(body) == DOMAIN body \ {"success", "needsData", "isCommand", "data"}

C19_FailureReasonNotInResponse ==
    QueryFailed /\ pc = "responded"
        => \A f \in TextFields(response.body) :
               ~includes(response.body[f], queryResult.error)

\* The same for failed predefined queries alone, where it holds.
C19_HoldsForPredefinedQueries ==
    QueryFailed /\ QuickQueryPath /\ pc = "responded"
        => \A f \in TextFields(response.body) :
               ~includes(response.body[f], queryResult.error)

----------------------------------------------------------------------------
(* C20.  A failure of the language model is not retried and is answered    *)
(* with a fixed apology: for one message generateSQL is called at most     *)
(* once and formatResponse and chatResponse at most once each, each with   *)
(* one request to the model; when generateSQL fails the answer is the      *)
(* fixed rephrase text and no query is executed; when formatResponse or    *)
(* chatResponse fails the answer is the apology of that function, and the  *)
(* response still has success = true.                                      *)

C20_LLMFailureIsNotRetried ==
    /\ Count("generateSQL") <= 1
    /\ Count("formatResponse") <= 1
    /\ Count("chatResponse") <= 1
    /\ Count("generateResponse")
           = Count("generateSQL") + Count("formatResponse")
                 + Count("chatResponse")
    /\ Called("generateSQL") /\ sqlResult # NoResult /\ ~sqlResult.success
           => /\ pc = "responded"
              /\ response.status = 200
              /\ response.body.success
              /\ response.body.response = respRephrase
              /\ ~Called("executeDynamicQuery")
              /\ queryResult = NoResult
    /\ Called("formatResponse") /\ formatted # NoResult /\ ~formatted.success
           => /\ response.status = 200
              /\ response.body.success
              /\ response.body.response = respFormatApology
    /\ Called("chatResponse") /\ formatted # NoResult /\ ~formatted.success
           => /\ response.status = 200
              /\ response.body.success
              /\ response.body.response = respChatApology

\* chatResponse has failed and its apology has been sent with success.
C20_Witness ==
    /\ Called("chatResponse")
    /\ formatted # NoResult
    /\ ~formatted.success
    /\ pc = "responded"
    /\ response.body.response = respChatApology
    /\ response.body.success

----------------------------------------------------------------------------
(* C21.  Every inbound message is processed to completion: on every path   *)
(* and for every failure of the memory store, the language model and the   *)
(* query service, the handling of a message ends with one response sent,   *)
(* also when an exception is raised inside handleCommand or                *)
(* handleQuickQuery, which handleChat returns without awaiting them.       *)
(* (No step of a handler waits on anything but a promise that settles, so  *)
(* the handling ends; that it ends with a response is what is stated.)     *)

\* No step of the handling of the message is left to take.
Finished == pc \in {"responded", "unhandled"}

C21_EveryMessageIsAnswered ==
    Finished => pc = "responded" /\ response # NoResponse

\* What is thrown inside the try block of handleChat is answered with 500;
\* only what handleQuickQuery throws is left without an answer.
C21_CaughtIsAnswered ==
    /\ pc = "responded" => response # NoResponse
    /\ response = processingError => FreeformPath
    /\ pc \in {"rejected", "unhandled"}
           => QuickQueryPath /\ response = NoResponse

----------------------------------------------------------------------------
(* C22.  One collaborator being down does not prevent a response on the    *)
(* paths that do not need it.  With the database down (getRelevantMemories *)
(* returns success = false) a freeform message that needs no data is       *)
(* answered by chatResponse, with the context of no memories; with the     *)
(* language model down a quick query that succeeded in the database is     *)
(* answered with its rows in the field data and the apology as text.       *)

DatabaseDown == FreeformPath /\ ~memResult.success
LLMDown == formatted # NoResult /\ ~formatted.success

C22_OneOutageIsNotFatal ==
    /\ DatabaseDown /\ ~requiresDataQuery(message)
           => /\ context.memories = formatMemories(<<>>)
              /\ pc \in {"chatResponse", "responded"}
              /\ pc = "responded" => Called("chatResponse")
              /\ pc = "responded" /\ formatted # NoResult
                     => /\ response.status = 200
                        /\ response.body.success
                        /\ response.body.response = formatted.response
                        /\ formatted.success
                               => response.body.response = trim(tAnswer)
    /\ QuickQueryPath /\ queryResult.success /\ LLMDown
           => /\ pc = "responded"
              /\ response.status = 200
              /\ response.body.success
              /\ response.body.data = queryRows
              /\ response.body.response = respFormatApology

\* The database was down and the language model has answered the message.
C22_Witness ==
    /\ DatabaseDown
    /\ ~requiresDataQuery(message)
    /\ pc = "responded"
    /\ formatted # NoResult
    /\ formatted.success
    /\ response.status = 200
    /\ response.body.response = trim(tAnswer)

\* The language model was down and the rows of a quick query were sent.
C22_RowsWithApology ==
    ~(/\ QuickQueryPath /\ queryResult.success /\ LLMDown
      /\ response.body.data = queryRows)

----------------------------------------------------------------------------
(* C23.  The memory store is changed by explicit commands only: over any   *)
(* sequence of messages, a step changes the table only when it is the      *)
(* handling of /remember, which adds one row of the tenant, or of /forget, *)
(* which removes one row of the tenant; quick queries, freeform messages,  *)
(* /memories and /help leave it as it is.  The table is read for the       *)
(* prompt (getRelevantMemories) on the freeform path only, before any call *)
(* of the language model.                                                  *)

C23_StoreChangedByCommandsOnly ==
    [][/\ store' # store
              => /\ pc = "handleCommand"
                 /\ \/ /\ parseCommand(message).command = cmdRemember
                       /\ store \subseteq store'
                       /\ \E m \in store' :
                              /\ store' = store \cup {m}
                              /\ m.teacher_id = teacherId
                              /\ m.memory_content = parseCommand(message).args
                    \/ /\ parseCommand(message).command = cmdForget
                       /\ \E m \in store :
                              /\ store' = store \ {m}
                              /\ m.teacher_id = teacherId
       /\ memOp' # memOp /\ memOp'.name = "getRelevantMemories"
              => /\ pc = "getRelevantMemories"
                 /\ ~LeadingSlash(message)
                 /\ matchQuickQuery(message) = Null
                 /\ ~Called("generateResponse")
                 /\ store' = store
      ]_vars

\* After a /remember and a /forget the tenant's table differs from the one
\* the first message found, and a later message is on the freeform path.
C23_Witness ==
    /\ nextId > 2
    /\ store # InitialMemories
    /\ \A m \in store : m.id # 1
    /\ FreeformPath
    /\ teacherId = 5

----------------------------------------------------------------------------
(* C24.  Memory commands without a usable argument change nothing:         *)
(* /remember with empty content is answered with 400 and saveMemory is not *)
(* called; /forget with an argument that does not parse to a non-zero      *)
(* integer is answered with 400 and deleteMemory is not called; any        *)
(* content that is not empty is handed to saveMemory as it is.             *)

Handled == pc = "responded" /\ CommandPath
Command == parseCommand(message).command
Args == parseCommand(message).args

C24_UnusableArgumentChangesNothing ==
    /\ Handled /\ Command = cmdRemember /\ Args = <<>>
           => response.status = 400 /\ memOp = NoMemOp
    /\ Handled /\ Command = cmdForget
               /\ (parseInt(Args).isNaN \/ parseInt(Args).value = 0)
           => response.status = 400 /\ memOp = NoMemOp
    /\ Handled /\ Command = cmdRemember /\ Args # <<>>
           => /\ memOp.name = "saveMemory"
              /\ memOp.text = Args
              /\ response.status = 200
              /\ memResult.success
                     => \E m \in store : /\ m.id = memResult.memoryId
                                         /\ m.memory_content = Args
                                         /\ m.teacher_id = teacherId

\* /forget abc has been answered with 400 and the table still has the row.
C24_Witness ==
    /\ Handled
    /\ message = mForgetAbc
    /\ response.status = 400
    /\ memOp = NoMemOp
    /\ store = InitialMemories

----------------------------------------------------------------------------
(* C25.  The memories recalled for a freeform message reach the prompt     *)
(* with their text: when getRelevantMemories returned a list that is not   *)
(* empty, the string formatMemories produced for context.memories contains *)
(* the content of each recalled memory.                                    *)

Recalled ==
    FreeformPath /\ memResult.success /\ Len(memResult.memories) > 0

C25_RecalledTextInPrompt ==
    Recalled => \A i \in DOMAIN memResult.memories :
                    includes(context.memories, memResult.memories[i].content)

\* What the prompt holds instead: a numbered line per memory with the text
\* of an invalid date and of undefined.
C25_PromptHoldsUndefined ==
    Recalled => \A i \in DOMAIN memResult.memories :
                    includes(context.memories,
                             strMemoryLabel \o numberToString(i)
                                 \o <<" ", "(">> \o strInvalidDate
                                 \o <<")", ":", " ">> \o strUndefined)

----------------------------------------------------------------------------
(* C26.  generateSQL hands on the complete query of the language model:    *)
(* taking away code fences and explanatory text never takes away part of   *)
(* the SELECT statement, also when FROM and WHERE are on lines of their    *)
(* own; so no reply goes on with a FROM line after the text handed on.     *)

Generated == sqlResult # NoResult /\ sqlResult.success

C26_CompleteQueryHandedOn ==
    Generated =>
        \A t \in GeneratedReplies :
            sqlResult.sql = extractSQL(t)
                => ~includes(t, sqlResult.sql \o <<"\n">> \o kwFROM)

\* A statement on one line is handed on whole, with fences and explanation
\* taken away.
C26_OneLineKept ==
    Generated =>
        \A t \in {tPlainSelect, tFenced} :
            sqlResult.sql = extractSQL(t) => sqlResult.sql = tPlainSelect

----------------------------------------------------------------------------
(* C28.  matchQuickQuery returns the first query type in declaration order *)
(* that has a trigger phrase inside the lower-cased message, and null when *)
(* there is none; and every declared phrase can select its own query type. *)
(* A message that holds a phrase holds whatever the phrase holds, so a     *)
(* phrase selects its type for some message exactly when the phrase alone  *)
(* as the message selects it.                                              *)

C28_EveryPhraseSelectsItsType ==
    \A i \in DOMAIN patterns :
        \A k \in DOMAIN patterns[i].keywords :
            message = patterns[i].keywords[k] /\ QuickQueryPath
                => matchQuickQuery(message) = patterns[i].queryType

\* The first half: the type returned is the first in declaration order with
\* a phrase in the message, and every message without one goes on.
C28_FirstInDeclarationOrder ==
    (Finished \/ pc = "rejected") /\ trim(message) # <<>>
                                  /\ ~parseCommand(message).isCommand
        => LET lower == toLowerCase(message)
               has(i) == \E k \in DOMAIN patterns[i].keywords :
                             includes(lower, patterns[i].keywords[k])
           IN  /\ QuickQueryPath <=> \E i \in DOMAIN patterns : has(i)
               /\ \A i \in DOMAIN patterns :
                      has(i) /\ (\A j \in 1..(i - 1) : ~has(j))
                          => matchQuickQuery(message) = patterns[i].queryType

----------------------------------------------------------------------------
(* The router of the Rick routes: router.use(rickAuth) in front of the     *)
(* three routes, the rate limiter in front of the chat route, and the      *)
(* handlers.  A request is a record of what the earlier middleware left in *)
(* req.user and req.session, what rickAuth put in req.teacherId (0 while   *)
(* it is not set), the handler that was invoked and the status sent.       *)

errAuthRequired ==
    <<"A", "u", "t", "h", "e", "n", "t", "i", "c", "a", "t", "i", "o", "n",
      " ", "r", "e", "q", "u", "i", "r", "e", "d", " ", "t", "o", " ", "u",
      "s", "e", " ", "R", "i", "c", "k", " ", "A", "I">>


Routes == {"chat", "quick-queries", "health"}

\* req.user and req.session: absent, without a teacher_id, or with one (0 is
\* the id that is not truthy).
Absent == [absent |-> TRUE]
Anonymous == [name |-> "guest"]
Users == {Absent, Anonymous, [teacher_id |-> 0], [teacher_id |-> 5]}
Sessions ==
    {Absent, Anonymous, [teacher_id |-> 0], [teacher_id |-> 5],
     [teacher_id |-> 42]}

\* req.user && req.user.teacher_id, as a condition.
hasTeacherId(holder) ==
    "teacher_id" \in DOMAIN holder /\ holder.teacher_id # 0

\* rickAuth with the session looked at before the user.
rickAuthSessionFirst(r) ==
    IF hasTeacherId(r.session)
    THEN [r EXCEPT !.teacherId = r.session.teacher_id, !.stage = "route"]
    ELSE IF hasTeacherId(r.user)
    THEN [r EXCEPT !.teacherId = r.user.teacher_id, !.stage = "route"]
    ELSE [r EXCEPT !.status = 401, !.error = errAuthRequired,
                   !.stage = "done"]

\* rickAuth: next() with req.teacherId set, or the 401 response.
rickAuth(r) ==
    IF hasTeacherId(r.user)
    THEN [r EXCEPT !.teacherId = r.user.teacher_id, !.stage = "route"]
    ELSE IF hasTeacherId(r.session)
    THEN [r EXCEPT !.teacherId = r.session.teacher_id, !.stage = "route"]
    ELSE [r EXCEPT !.status = 401, !.error = errAuthRequired,
                   !.stage = "done"]

\* The messages of the chat requests: one or two for each way through
\* handleChat.
RequestMessages ==
    NextMessages \cap {mEmpty, mRememberJoe, mRememberNothing, mMemories,
                       mForget1, mForgetAbc, mHelpUpper, mUnknownShow,
                       mWhoIsStruggling, mListStudents, mHelloThere}

AuthInit ==
    /\ sql = <<>>
    /\ teacherId = 0
    /\ op = "none"
    /\ cleanSQL = Null
    /\ validation = NoValidation
    /\ injected = Null
    /\ injectedAgain = Null
    /\ result = NoResult
    /\ store = InitialMemories
    /\ nextId = 2
    /\ now = 1
    /\ memOp = NoMemOp
    /\ memResult = NoMemResult
    /\ response = NoResponse
    /\ ChatIdle
    /\ WebIdle

\* A request reaches the router; what the last request left is gone.
Request ==
    /\ req.stage \in {"none", "done"}
    /\ \E r \in Routes, u \in Users, s \in Sessions :
           req' = [route |-> r, user |-> u, session |-> s, teacherId |-> 0,
                   stage |-> "rickAuth", handler |-> "none", status |-> 0,
                   error |-> Null]
    /\ message' = Null
    /\ pc' = "idle"
    /\ calls' = <<>>
    /\ sqlResult' = NoResult
    /\ queryResult' = NoResult
    /\ formatted' = NoResult
    /\ context' = Null
    /\ memOp' = NoMemOp
    /\ memResult' = NoMemResult
    /\ response' = NoResponse
    /\ UNCHANGED <<store, nextId, now, sqlVars, ui, tasks>>

\* router.use(rickAuth).
RickAuth ==
    /\ req.stage = "rickAuth"
    /\ req' = rickAuth(req)
    /\ UNCHANGED <<sqlVars, memVars, chatVars, ui, tasks>>

\* chatLimiter: the request goes on, or the limit of the minute is used up.
ChatLimiter ==
    /\ req.stage = "route"
    /\ req.route = "chat"
    /\ \E limited \in BOOLEAN :
           req' = IF limited
                  THEN [req EXCEPT !.status = 429, !.stage = "done"]
                  ELSE [req EXCEPT !.stage = "handler"]
    /\ UNCHANGED <<sqlVars, memVars, chatVars, ui, tasks>>

\* rickController.handleChat is invoked with the request.
InvokeHandleChat ==
    /\ req.stage = "handler"
    /\ req' = [req EXCEPT !.handler = "handleChat", !.stage = "running"]
    /\ teacherId' = req.teacherId
    /\ message' \in RequestMessages
    /\ pc' = "received"
    /\ UNCHANGED <<sql, op, cleanSQL, validation, injected, injectedAgain,
                   result, memVars, calls, sqlResult, queryResult, formatted,
                   context, ui, tasks>>

\* handleChat is through with the request.
ChatDone ==
    /\ req.stage = "running"
    /\ pc \in {"responded", "unhandled"}
    /\ req' = [req EXCEPT !.status = response.status, !.stage = "done"]
    /\ UNCHANGED <<sqlVars, memVars, chatVars, ui, tasks>>

\* getQuickQueries and healthCheck: 200, or 500 from their catch.
GetQuickQueries ==
    /\ req.stage = "route"
    /\ req.route = "quick-queries"
    /\ \E thrown \in BOOLEAN :
           req' = [req EXCEPT !.handler = "getQuickQueries",
                              !.status = IF thrown THEN 500 ELSE 200,
                              !.stage = "done"]
    /\ UNCHANGED <<sqlVars, memVars, chatVars, ui, tasks>>

HealthCheck ==
    /\ req.stage = "route"
    /\ req.route = "health"
    /\ \E thrown \in BOOLEAN :
           req' = [req EXCEPT !.handler = "healthCheck",
                              !.status = IF thrown THEN 500 ELSE 200,
                              !.stage = "done"]
    /\ UNCHANGED <<sqlVars, memVars, chatVars, ui, tasks>>

AuthNext ==
    \/ Request
    \/ RickAuth
    \/ ChatLimiter
    \/ InvokeHandleChat
    \/ Receive
    \/ HandleCommand
    \/ HandleQuickQuery
    \/ QuickFormatResponse
    \/ ErrorMiddleware
    \/ UnhandledRejection
    \/ GetRelevantMemories
    \/ GenerateSQL
    \/ ExecuteDynamicQuery
    \/ FormatResponse
    \/ ChatResponse
    \/ ChatDone
    \/ GetQuickQueries
    \/ HealthCheck

AuthSpec == AuthInit /\ [][AuthNext]_vars

----------------------------------------------------------------------------
(* C27.  No handler of the Rick routes runs without a tenant identity:     *)
(* handleChat, getQuickQueries and healthCheck are invoked only after      *)
(* rickAuth has set req.teacherId to a truthy value, that of               *)
(* req.user.teacher_id when there is one and that of                       *)
(* req.session.teacher_id otherwise, and handleChat works for that tenant; *)
(* every other request is answered with 401 and no handler, memory         *)
(* operation, language model call or query runs for it.                    *)

Identity(r) ==
    IF "teacher_id" \in DOMAIN r.user /\ r.user.teacher_id # 0
    THEN r.user.teacher_id
    ELSE IF "teacher_id" \in DOMAIN r.session THEN r.session.teacher_id
    ELSE 0

NothingRan ==
    /\ req.handler = "none"
    /\ pc = "idle"
    /\ calls = <<>>
    /\ memOp = NoMemOp
    /\ sqlResult = NoResult
    /\ queryResult = NoResult
    /\ formatted = NoResult

C27_NoHandlerWithoutTenant ==
    req # NoRequest =>
        /\ ~NothingRan => /\ req.teacherId # 0
                          /\ req.teacherId = Identity(req)
                          /\ req.status # 401
        /\ pc # "idle" => /\ req.handler = "handleChat"
                          /\ teacherId = req.teacherId
        /\ memOp # NoMemOp => memOp.teacherId = req.teacherId
        /\ req.stage # "rickAuth" /\ Identity(req) = 0
               => req.status = 401 /\ req.stage = "done" /\ NothingRan
        /\ req.status = 401 => Identity(req) = 0

\* handleChat has saved a memory for the tenant of the session, the user of
\* the request having no teacher_id.
C27_Witness ==
    /\ req # NoRequest
    /\ req.user = Anonymous
    /\ req.teacherId = 42
    /\ req.handler = "handleChat"
    /\ memOp.name = "saveMemory"
    /\ memOp.teacherId = 42
    /\ \E m \in store : m.teacher_id = 42

\* A request without identity has been answered with 401.
C27_Refused ==
    ~(/\ req # NoRequest
      /\ req.status = 401
      /\ req.session = [teacher_id |-> 0]
      /\ NothingRan)

----------------------------------------------------------------------------
(* The RickChat component with its children ChatInput and MemoryList       *)
(* (QuickActions, whose results only add messages of the assistant, is     *)
(* left out).  ui holds the state of the hooks as it was last rendered     *)
(* (an update made in an event handler or after an await is rendered       *)
(* before the next event is handled); tasks holds the invocations of the   *)
(* async handlers that wait at their await, each with the values its       *)
(* closure captured.  clock stands for Date.now(), read for the message    *)
(* ids, and counts the handler invocations that did something.             *)

greeting ==
    <<"H", "i", "!", " ", "I", "'", "m", " ", "R", "i", "c", "k", ",", " ",
      "y", "o", "u", "r", " ", "A", "I", " ", "t", "e", "a", "c", "h", "i",
      "n", "g", " ", "a", "s", "s", "i", "s", "t", "a", "n", "t", ".", " ",
      "I", " ", "c", "a", "n", " ", "h", "e", "l", "p", " ", "y", "o", "u",
      " ", "a", "n", "a", "l", "y", "z", "e", " ", "s", "t", "u", "d", "e",
      "n", "t", " ", "d", "a", "t", "a", ",", " ", "t", "r", "a", "c", "k",
      " ", "p", "r", "o", "g", "r", "e", "s", "s", ",", " ", "a", "n", "d",
      " ", "a", "n", "s", "w", "e", "r", " ", "q", "u", "e", "s", "t", "i",
      "o", "n", "s", " ", "a", "b", "o", "u", "t", " ", "y", "o", "u", "r",
      " ", "c", "l", "a", "s", "s", ".", " ", "T", "r", "y", " ", "a", "s",
      "k", "i", "n", "g", " ", "m", "e", " ", "s", "o", "m", "e", "t", "h",
      "i", "n", "g", ",", " ", "o", "r", " ", "u", "s", "e", " ", "t", "h",
      "e", " ", "Q", "u", "i", "c", "k", " ", "Q", "u", "e", "r", "i", "e",
      "s", " ", "b", "e", "l", "o", "w", "!">>

errFailedToSend ==
    <<"F", "a", "i", "l", "e", "d", " ", "t", "o", " ", "s", "e", "n", "d",
      " ", "m", "e", "s", "s", "a", "g", "e">>

errFailedToFetch ==
    <<"F", "a", "i", "l", "e", "d", " ", "t", "o", " ", "f", "e", "t", "c",
      "h">>

sorryPrefix ==
    <<"S", "o", "r", "r", "y", ",", " ", "I", " ", "e", "n", "c", "o", "u",
      "n", "t", "e", "r", "e", "d", " ", "a", "n", " ", "e", "r", "r", "o",
      "r", ":", " ">>

sorrySuffix ==
    <<".", " ", "P", "l", "e", "a", "s", "e", " ", "t", "r", "y", " ", "a",
      "g", "a", "i", "n", ".">>

respNoMemoriesYetUI ==
    <<"I", " ", "d", "o", "n", "'", "t", " ", "h", "a", "v", "e", " ", "a",
      "n", "y", " ", "s", "a", "v", "e", "d", " ", "m", "e", "m", "o", "r",
      "i", "e", "s", " ", "y", "e", "t", ".", " ", "U", "s", "e", " ", "/",
      "r", "e", "m", "e", "m", "b", "e", "r", " ", "t", "o", " ", "s", "a",
      "v", "e", " ", "n", "o", "t", "e", "s", "!">>

respNoMemoriesAboutUI ==
    <<"I", " ", "d", "o", "n", "'", "t", " ", "h", "a", "v", "e", " ", "a",
      "n", "y", " ", "m", "e", "m", "o", "r", "i", "e", "s", " ", "a", "b",
      "o", "u", "t", " ">>



\* The sends and deletions of the user in one run.
MaxEvents == 3

\* What ChatInput hands to onSendMessage: trimmed and not empty.
InputTexts == {mHelloThere, mMemories, mMemoriesJoe}

\* The lists getMemories answers with when the teacher has memories.
Memory(i) == [id |-> i]
MemoryLists == {<<Memory(1)>>, <<Memory(1), Memory(2)>>}

\* What an awaited call of rickAPI settles with: the parsed body, or the
\* Error thrown for a response that is not ok or a failed fetch.
Thrown(text) == [thrown |-> TRUE, message |-> text]
Body(b) == [thrown |-> FALSE, body |-> b]

SendOutcomes ==
    {Body([success |-> TRUE, response |-> trim(tAnswer)]),
     Body([success |-> FALSE, error |-> Null]),
     Thrown(errFailedToFetch)}

MemoriesOutcomes ==
    {Body([success |-> TRUE, memories |-> l]) : l \in MemoryLists}
        \cup {Body([success |-> FALSE]), Body([success |-> TRUE]),
              Thrown(errFailedToFetch)}

DeleteOutcomes ==
    {Body([success |-> TRUE]), Body([success |-> FALSE]),
     Thrown(errFailedToFetch)}

ChatEntry(id, content, isUser) ==
    [id |-> id, content |-> content, isUser |-> isUser]

\* setMessages(prev => [...prev, entry]).
appendMessage(u, entry) == [u EXCEPT !.messages = Append(@, entry)]

Mounted ==
    [messages |-> <<ChatEntry(0, greeting, FALSE)>>, isLoading |-> FALSE,
     showMemories |-> FALSE, memories |-> <<>>, deleting |-> 0, clock |-> 0]

UIInit ==
    /\ sql = <<>>
    /\ teacherId = 0
    /\ op = "none"
    /\ cleanSQL = Null
    /\ validation = NoValidation
    /\ injected = Null
    /\ injectedAgain = Null
    /\ result = NoResult
    /\ MemoryIdle
    /\ ChatIdle
    /\ req = NoRequest
    /\ ui = Mounted
    /\ tasks = {}

\* The part of handleSendMessage before its first await.
isMemoriesCommand(messageText) ==
    LET parsed == parseCommand(messageText)
    IN  parsed.isCommand /\ parsed.command = cmdMemories

beginSendMessage(u, messageText) ==
    [appendMessage(u, ChatEntry(u.clock, messageText, TRUE))
         EXCEPT !.isLoading = TRUE]

\* The part of handleSendMessage after await sendMessage, with catch and
\* finally left out.
afterSendMessageUncaught(u, outcome) ==
    IF ~outcome.thrown /\ outcome.body.success
    THEN appendMessage(u, ChatEntry(u.clock + 1, outcome.body.response,
                                    FALSE))
    ELSE u

\* The part of handleSendMessage after await sendMessage: the answer or
\* the error message is appended and finally clears isLoading.
afterSendMessage(u, outcome) ==
    LET reason == IF outcome.thrown THEN outcome.message
                    ELSE IF truthy(outcome.body.error)
                    THEN outcome.body.error
                    ELSE errFailedToSend
        appended ==
            IF ~outcome.thrown /\ outcome.body.success
            THEN appendMessage(u, ChatEntry(u.clock + 1,
                                            outcome.body.response, FALSE))
            ELSE appendMessage(u, ChatEntry(u.clock + 1,
                                            sorryPrefix \o reason
                                                \o sorrySuffix, FALSE))
    IN  [appended EXCEPT !.isLoading = FALSE]

\* handleMemoriesCommand after await getMemories, then setIsLoading(false).
afterGetMemories(u, studentName, outcome) ==
    LET shown ==
            IF outcome.thrown THEN u
            ELSE IF outcome.body.success
                        /\ "memories" \in DOMAIN outcome.body
            THEN [u EXCEPT !.memories = outcome.body.memories,
                           !.showMemories = TRUE]
            ELSE appendMessage(u,
                     ChatEntry(u.clock,
                               IF truthy(studentName)
                               THEN respNoMemoriesAboutUI \o studentName
                                        \o <<".">>
                               ELSE respNoMemoriesYetUI,
                               FALSE))
    IN  [shown EXCEPT !.isLoading = FALSE]

\* memories.filter(m => m.id !== memoryId).
withoutMemory(memories, memoryId) ==
    SelectSeq(memories, LAMBDA m : m.id # memoryId)

\* handleMemoryDeleted as the closure of a render whose memories had the
\* length seen; closing the modal unmounts MemoryList.
handleMemoryDeleted(u, memoryId, seen) ==
    LET filtered == [u EXCEPT !.memories = withoutMemory(@, memoryId)]
    IN  IF seen <= 1
        THEN [filtered EXCEPT !.showMemories = FALSE, !.deleting = 0]
        ELSE filtered

\* ChatInput.handleSubmit calls onSendMessage unless it is disabled, and
\* handleSendMessage returns at once while isLoading.
HandleSendMessage ==
    /\ ui.clock < MaxEvents
    /\ \E messageText \in InputTexts :
           IF ui.isLoading
           THEN UNCHANGED <<ui, tasks>>
           ELSE /\ ui' = [beginSendMessage(ui, messageText)
                              EXCEPT !.clock = @ + 1]
                /\ tasks' = tasks \cup
                       {[kind |-> "send", n |-> ui.clock,
                         text |-> messageText,
                         args |-> parseCommand(messageText).args,
                         at |-> IF isMemoriesCommand(messageText)
                                THEN "getMemories" ELSE "sendMessage"]}
    /\ UNCHANGED <<sqlVars, memVars, chatVars, req>>

\* await sendMessage(messageText, conversationHistory) settles.
SendMessageSettles ==
    /\ \E t \in tasks, outcome \in SendOutcomes :
           /\ t.kind = "send"
           /\ t.at = "sendMessage"
           /\ ui' = afterSendMessage(ui, outcome)
           /\ tasks' = tasks \ {t}
    /\ UNCHANGED <<sqlVars, memVars, chatVars, req>>

\* await handleMemoriesCommand(parsed.args) settles.
GetMemoriesSettles ==
    /\ \E t \in tasks, outcome \in MemoriesOutcomes :
           /\ t.kind = "send"
           /\ t.at = "getMemories"
           /\ ui' = afterGetMemories(ui, t.args, outcome)
           /\ tasks' = tasks \ {t}
    /\ UNCHANGED <<sqlVars, memVars, chatVars, req>>

\* MemoryList.handleDelete up to its await, the user having confirmed: the
\* button of the id in deleting is disabled.
HandleDelete ==
    /\ ui.clock < MaxEvents
    /\ ui.showMemories
    /\ \E i \in DOMAIN ui.memories :
           /\ ui.deleting # ui.memories[i].id
           /\ ui' = [ui EXCEPT !.deleting = ui.memories[i].id,
                               !.clock = @ + 1]
           /\ tasks' = tasks \cup
                  {[kind |-> "delete", n |-> ui.clock,
                    memoryId |-> ui.memories[i].id,
                    seen |-> Len(ui.memories)]}
    /\ UNCHANGED <<sqlVars, memVars, chatVars, req>>

\* await deleteMemory(memoryId) settles; finally setDeleting(null).
DeleteSettles ==
    /\ \E t \in tasks, outcome \in DeleteOutcomes :
           /\ t.kind = "delete"
           /\ ui' = [(IF ~outcome.thrown /\ outcome.body.success
                      THEN handleMemoryDeleted(ui, t.memoryId, t.seen)
                      ELSE ui) EXCEPT !.deleting = 0]
           /\ tasks' = tasks \ {t}
    /\ UNCHANGED <<sqlVars, memVars, chatVars, req>>

\* onClose of the modal.
CloseMemories ==
    /\ ui.showMemories
    /\ ui' = [ui EXCEPT !.showMemories = FALSE, !.deleting = 0]
    /\ UNCHANGED <<sqlVars, memVars, chatVars, req, tasks>>

UINext ==
    \/ HandleSendMessage
    \/ SendMessageSettles
    \/ GetMemoriesSettles
    \/ HandleDelete
    \/ DeleteSettles
    \/ CloseMemories

UISpec == UIInit /\ [][UINext]_vars

\* Every request of rickAPI settles: fetch resolves or rejects.
UIFairSpec ==
    /\ UISpec
    /\ WF_vars(SendMessageSettles)
    /\ WF_vars(GetMemoriesSettles)

----------------------------------------------------------------------------
(* C29.  At most one chat request of RickChat is in flight and the loading *)
(* state always clears: handleSendMessage does nothing while isLoading is  *)
(* true; isLoading is true exactly while the request of a send is awaited, *)
(* and after every send, whatever its outcome (success, a result with      *)
(* success false, a thrown error, the /memories command), it is false      *)
(* again; every user message sent is in the list of messages once.         *)

Sends == {t \in tasks : t.kind = "send"}
UserEntries == {i \in DOMAIN ui.messages : ui.messages[i].isUser}

----------------------------------------------------------------------------
(* C30.  Whenever deletions leave the list of the memory modal empty the   *)
(* modal is closed: with any number of deletions in flight, once           *)
(* handleMemoryDeleted has removed the last memory, showMemories is false. *)

DeletesInFlight == {t \in tasks : t.kind = "delete"}

C30_EmptyListClosesModal ==
    ui.memories = <<>> => ~ui.showMemories

\* A deletion that settles while the list is the one its handler was made
\* with does close the modal with the last memory.
C30_OneAtATime ==
    [][\A t \in DeletesInFlight :
           /\ t \notin tasks'
           /\ t.seen = Len(ui.memories)
           /\ ui'.memories = <<>>
           => ~ui'.showMemories]_vars

\* Two deletions started from the list of two have both succeeded, after
\* one /memories command: the list is empty and the modal is open.
C30_BothInFlight ==
    ~(/\ ui.memories = <<>>
      /\ ui.showMemories
      /\ DeletesInFlight = {}
      /\ Cardinality(UserEntries) = 1)

====
